---- MODULE Spec2Model ----
(***************************************************************************)
(* Verification model of the vgEngine procedural-noise core:               *)
(*   src/src/virigir_math_utilities/noise/generators/kernels.py            *)
(*   src/src/virigir_math_utilities/noise/generators/domain_warp.py        *)
(*   src/src/virigir_math_utilities/noise/generators/noise2d.py            *)
(*   src/src/virigir_math_utilities/noise/core/enums.py                    *)
(*                                                                         *)
(* Floating-point values are carried as exact rationals <<n, d>> (d > 0,   *)
(* lowest terms).  A single-octave sampler is a function of (seed, x, y);  *)
(* in the kernel specification its value at the point visited by octave k  *)
(* is field[k], drawn from Samples, the sampler's documented range.        *)
(***************************************************************************)
EXTENDS Integers, Sequences, FiniteSets, TLC

(***************************************************************************)
(* Bounds of the model                                                     *)
(***************************************************************************)
MaxOctaves == 2

(***************************************************************************)
(* Exact rational arithmetic standing for the kernels' float64 arithmetic  *)
(***************************************************************************)
Abs(a) == IF a < 0 THEN -a ELSE a

RECURSIVE GCD(_, _)
GCD(a, b) == IF b = 0 THEN a ELSE GCD(b, a % b)

Norm(n, d) == LET g == GCD(Abs(n), d) IN <<n \div g, d \div g>>

R(n) == <<n, 1>>

RAdd(a, b) ==
    LET l == (a[2] \div GCD(a[2], b[2])) * b[2]
    IN  Norm(a[1] * (l \div a[2]) + b[1] * (l \div b[2]), l)

RNeg(a) == <<-a[1], a[2]>>

RSub(a, b) == RAdd(a, RNeg(b))

RMul(a, b) ==
    LET g1 == GCD(Abs(a[1]), b[2])
        g2 == GCD(Abs(b[1]), a[2])
    IN  Norm((a[1] \div g1) * (b[1] \div g2), (a[2] \div g2) * (b[2] \div g1))

RInv(a) == IF a[1] > 0 THEN <<a[2], a[1]>> ELSE <<-a[2], -a[1]>>

RLe(a, b) ==
    LET l == (a[2] \div GCD(a[2], b[2])) * b[2]
    IN  a[1] * (l \div a[2]) <= b[1] * (l \div b[2])

RLt(a, b) == ~RLe(b, a)

RAbs(a) == <<Abs(a[1]), a[2]>>

RMin(a, b) == IF RLe(a, b) THEN a ELSE b

\* Python int(t): truncation toward zero
RTrunc(a) == IF a[1] >= 0 THEN a[1] \div a[2] ELSE -((-a[1]) \div a[2])

\* np.floor(t) as an integer
RFloor(a) == a[1] \div a[2]

RMax(a, b) == IF RLe(b, a) THEN a ELSE b

RDiv(a, b) == RMul(a, RInv(b))

\* Python round(t): the nearest integer, a tie going to the even one
py_round(a) ==
    LET q == a[1] \div a[2]
        rem == a[1] - q * a[2]
    IN  IF 2 * rem < a[2] THEN q
        ELSE IF 2 * rem > a[2] THEN q + 1
        ELSE IF q % 2 = 0 THEN q ELSE q + 1

(***************************************************************************)
(* kernels.py: interpolation helpers and fractal bounding                  *)
(***************************************************************************)
\* a + t * (b - a)
lerp(a, b, t) == RAdd(a, RMul(t, RSub(b, a)))

\* the reduction t -= int(t * 0.5) * 2 without the fold that follows it
ping_pong_nofold(t) ==
    RSub(t, R(RTrunc(RMul(t, <<1, 2>>)) * 2))

\* t -= int(t * 0.5) * 2 ; t if t < 1 else 2 - t
ping_pong(t) ==
    LET t2 == RSub(t, R(RTrunc(RMul(t, <<1, 2>>)) * 2))
    IN  IF RLt(t2, R(1)) THEN t2 ELSE RSub(R(2), t2)

RECURSIVE AmpFractal(_, _, _, _)
AmpFractal(i, octaves, amp, gain_abs) ==
    IF i >= octaves THEN R(0)
    ELSE RAdd(amp, AmpFractal(i + 1, octaves, RMul(amp, gain_abs), gain_abs))

\* amp_fractal = 1 + gain + gain^2 + ... (octaves terms) ; 1 / amp_fractal
calc_fractal_bounding(octaves, gain) ==
    LET gain_abs == RAbs(gain)
    IN  RInv(RAdd(R(1), AmpFractal(1, octaves, gain_abs, gain_abs)))

(***************************************************************************)
(* Input domains of the kernel specification                               *)
(***************************************************************************)
\* values a single-octave sampler returns (documented range [-1, 1])
Samples == {R(-1), <<-1, 2>>, R(0), <<1, 2>>, R(1)}

NoiseTypes == 0 .. 5          \* enums.py NoiseType codes
FractalTypes == 0 .. 3        \* enums.py FractalType codes
Gains == {<<1, 2>>, R(1)}
WeightedStrengths == {R(-1), R(0), <<1, 2>>, R(2)}
PingPongStrengths == {R(1), R(2)}
KernelSeeds == {42, 2147483647}
KernelPoints == {<<R(0), R(0)>>, <<R(3), R(-5)>>}

\* 0.5 * (sqrt(3) - 1) = 0.36602540378..., carried at three decimals
F2 == <<183, 500>>

VARIABLES
    kargs,      \* arguments of one noise2d_batch element: scalars and x[i], y[i]
    kpc,        \* position inside noise2d_batch / _fractal_noise
    kseed,      \* _fractal_noise: local seed
    kx, ky,     \* _fractal_noise: local x, y
    ktotal,     \* _fractal_noise: total
    kamp,       \* _fractal_noise: amp
    koct,       \* octaves completed
    knoise,     \* last value returned by _apply_single
    kused,      \* the seed the latest _apply_single call was handed
    kout,       \* out[i]
    gens,       \* the NoiseGenerator2D instances, by instance number
    origin,     \* how each instance was built: constructor used and record
    last,       \* the latest facade call: operation, arguments, outcome
    heap,       \* the arrays, by identity: heap[1] and heap[2] are the inputs x, y
    bcall,      \* the batch call in progress: kernel, scalars, arrays, prange state
    frames,     \* per worker thread, the loop-body locals of its iteration
    stored,     \* the object whose fields the batch call's scalars were read from
    pfn,        \* a function evaluated on its own: its name
    pin,        \* ... its arguments
    pout,       \* ... what it returned, once it has
    dw,         \* one DomainWarp2D instance and its attributes
    dwop,       \* the latest operation on it, the table before it, its result
    slider,     \* one Slider widget and its attributes
    sevent,     \* the latest operation on the slider and what it returned
    objs,       \* the GameObjects, by id: _parent, _children, _x, _destroyed
    objop,      \* the latest operation on the GameObjects and its outcome
    chr,        \* one BaseCharacter: health, max_health, is_alive
    chrop,      \* the latest operation on the character and its argument
    ui,         \* one UIManager: _widgets, _focused_widget, _hovered_widget
    uiop        \* the latest operation on the manager

kvars == <<kargs, kpc, kseed, kx, ky, ktotal, kamp, koct, knoise, kused, kout>>

fvars == <<gens, origin, last>>

bvars == <<heap, bcall, frames, stored>>

pvars == <<pfn, pin, pout>>

wvars == <<dw, dwop>>

uvars == <<slider, sevent>>

gvars == <<objs, objop>>

cvars == <<chr, chrop>>

mvars == <<ui, uiop>>

ovars == <<gvars, cvars, mvars>>

svars == <<wvars, uvars, ovars>>

xvars == <<pvars, svars>>

vars == <<kvars, fvars, bvars, xvars>>

\* a seed left as it is from one octave to the next
int32_inc_none(s) == s

\* nb.int32(seed + nb.int32(1)): two's-complement wraparound
int32_inc(s) == IF s = 2147483647 THEN (-2147483647) - 1 ELSE s + 1

KernelArgs ==
    [seed : KernelSeeds, frequency : {R(1), <<1, 2>>}, noise_type : NoiseTypes,
     fractal_type : FractalTypes, octaves : 1 .. MaxOctaves,
     lacunarity : {R(2)}, gain : Gains,
     weighted_strength : WeightedStrengths,
     ping_pong_strength : PingPongStrengths,
     x : {p[1] : p \in KernelPoints}, y : {p[2] : p \in KernelPoints}]

KernelInit ==
    /\ kargs \in {a \in KernelArgs : <<a.x, a.y>> \in KernelPoints}
    /\ kpc = "call"
    /\ kseed = 0
    /\ kx = R(0)
    /\ ky = R(0)
    /\ ktotal = R(0)
    /\ kamp = R(0)
    /\ koct = 0
    /\ knoise = R(0)
    /\ kused = 0
    /\ kout = R(0)

KernelIdle ==
    /\ kargs = [seed |-> 0]
    /\ kpc = "idle"
    /\ kseed = 0
    /\ kx = R(0)
    /\ ky = R(0)
    /\ ktotal = R(0)
    /\ kamp = R(0)
    /\ koct = 0
    /\ knoise = R(0)
    /\ kused = 0
    /\ kout = R(0)

\* a skew applied whatever the noise type
use_skew_always(noise_type) == TRUE

\* use_skew = (noise_type == 0 or noise_type == 1)
use_skew(noise_type) == noise_type = 0 \/ noise_type = 1

\* noise2d_batch, one iteration of the prange loop up to the call of
\* _fractal_noise, and _fractal_noise up to its octave loop
noise2d_batch_element ==
    /\ kpc = "call"
    /\ LET xs == RMul(kargs.x, kargs.frequency)
           ys == RMul(kargs.y, kargs.frequency)
           t == RMul(RAdd(xs, ys), F2)
       IN  /\ kx' = IF use_skew(kargs.noise_type) THEN RAdd(xs, t) ELSE xs
           /\ ky' = IF use_skew(kargs.noise_type) THEN RAdd(ys, t) ELSE ys
    /\ kseed' = kargs.seed
    /\ ktotal' = R(0)
    /\ kamp' = calc_fractal_bounding(kargs.octaves, kargs.gain)
    /\ kpc' = IF kargs.fractal_type = 0 THEN "single" ELSE "octave"
    /\ UNCHANGED <<kargs, koct, knoise, kused, kout, fvars, bvars, xvars>>

\* _fractal_noise, fractal_type == 0: one sampler call, returned as is
fractal_none ==
    /\ kpc = "single"
    /\ \E s \in Samples :
        /\ knoise' = s
        /\ kout' = s
    /\ kused' = kseed
    /\ kpc' = "done"
    /\ UNCHANGED <<kargs, kseed, kx, ky, ktotal, kamp, koct, fvars, bvars, xvars>>

\* the tail every octave shares: x *= lacunarity ; y *= lacunarity ; seed += 1
OctaveTail ==
    /\ kx' = RMul(kx, kargs.lacunarity)
    /\ ky' = RMul(ky, kargs.lacunarity)
    /\ kused' = kseed
    /\ kseed' = int32_inc(kseed)
    /\ koct' = koct + 1
    /\ UNCHANGED <<kargs, kpc, kout, fvars, bvars, xvars>>

fbm_amp_weight(noise, ws) ==
    lerp(R(1), RMul(RMin(RAdd(noise, R(1)), R(2)), <<1, 2>>), ws)

fractal_fbm ==
    /\ kpc = "octave" /\ kargs.fractal_type = 1 /\ koct < kargs.octaves
    /\ \E s \in Samples :
        /\ knoise' = s
        /\ ktotal' = RAdd(ktotal, RMul(s, kamp))
        /\ kamp' = RMul(kamp, RMul(fbm_amp_weight(s, kargs.weighted_strength),
                                   kargs.gain))
    /\ OctaveTail

ridged_amp_weight(noise, ws) == lerp(R(1), RSub(R(1), noise), ws)

fractal_ridged ==
    /\ kpc = "octave" /\ kargs.fractal_type = 2 /\ koct < kargs.octaves
    /\ \E s \in Samples :
        LET noise == RAbs(s) IN
        /\ knoise' = noise
        /\ ktotal' = RAdd(ktotal, RMul(RAdd(RMul(noise, R(-2)), R(1)), kamp))
        /\ kamp' = RMul(kamp, RMul(ridged_amp_weight(noise, kargs.weighted_strength),
                                   kargs.gain))
    /\ OctaveTail

pingpong_amp_weight(noise, ws) == lerp(R(1), noise, ws)

fractal_pingpong ==
    /\ kpc = "octave" /\ kargs.fractal_type = 3 /\ koct < kargs.octaves
    /\ \E raw \in Samples :
        LET noise == ping_pong(RMul(RAdd(raw, R(1)), kargs.ping_pong_strength)) IN
        /\ knoise' = noise
        /\ ktotal' = RAdd(ktotal, RMul(RMul(RSub(noise, <<1, 2>>), R(2)), kamp))
        /\ kamp' = RMul(kamp, RMul(pingpong_amp_weight(noise, kargs.weighted_strength),
                                   kargs.gain))
    /\ OctaveTail

\* return total ; out[i] = ...
fractal_return ==
    /\ kpc = "octave" /\ koct = kargs.octaves
    /\ kout' = ktotal
    /\ kpc' = "done"
    /\ UNCHANGED <<kargs, kseed, kx, ky, ktotal, kamp, koct, knoise, kused, fvars, bvars, xvars>>

KernelNext ==
    \/ noise2d_batch_element
    \/ fractal_none
    \/ fractal_fbm
    \/ fractal_ridged
    \/ fractal_pingpong
    \/ fractal_return

FacadeIdle ==
    /\ gens = <<>>
    /\ origin = <<>>
    /\ last = [op |-> "none"]

BatchIdle ==
    /\ heap = <<>>
    /\ bcall = [pc |-> "idle"]
    /\ frames = <<>>
    /\ stored = [kind |-> "none"]

PureIdle ==
    /\ pfn = "none"
    /\ pin = <<>>
    /\ pout = [done |-> FALSE]

WarpIdle ==
    /\ dw = [alive |-> FALSE]
    /\ dwop = [op |-> "none"]

SliderIdle ==
    /\ slider = [alive |-> FALSE]
    /\ sevent = [op |-> "none"]

ObjectsIdle ==
    /\ objs = <<>>
    /\ objop = [op |-> "none"]

CharacterIdle ==
    /\ chr = [alive |-> FALSE]
    /\ chrop = [op |-> "none"]

ManagerIdle ==
    /\ ui = [alive |-> FALSE]
    /\ uiop = [op |-> "none"]

StatefulIdle == WarpIdle /\ SliderIdle /\ ObjectsIdle /\ CharacterIdle /\ ManagerIdle

OthersIdle == PureIdle /\ StatefulIdle

InitKernel == KernelInit /\ FacadeIdle /\ BatchIdle /\ OthersIdle

SpecKernel == InitKernel /\ [][KernelNext]_vars

(***************************************************************************)
(* enums.py: members in declaration order; member k has value k - 1.       *)
(* noise2d.py and domain_warp.py still name NoiseType.SIMPLEX,             *)
(* NoiseType.SIMPLEX_SMOOTH and DomainWarpType.SIMPLEX; they are read here *)
(* as the members that took their place, OPEN_SIMPLEX_2 (0) and            *)
(* OPEN_SIMPLEX_2S (1).                                                    *)
(***************************************************************************)
NoiseType == <<"OPEN_SIMPLEX_2", "OPEN_SIMPLEX_2S", "CELLULAR", "PERLIN",
               "VALUE_CUBIC", "VALUE">>
FractalType == <<"NONE", "FBM", "RIDGED", "PING_PONG">>
CellularDistanceFunction == <<"EUCLIDEAN", "EUCLIDEAN_SQUARED", "MANHATTAN", "HYBRID">>
CellularReturnType == <<"CELL_VALUE", "DISTANCE", "DISTANCE_2", "DISTANCE_2_ADD",
                        "DISTANCE_2_SUB", "DISTANCE_2_MUL", "DISTANCE_2_DIV">>
DomainWarpType == <<"OPEN_SIMPLEX_2", "OPEN_SIMPLEX_2_REDUCED", "BASIC_GRID">>
DomainWarpFractalType == <<"NONE", "PROGRESSIVE", "INDEPENDENT">>

Range(f) == {f[k] : k \in DOMAIN f}

\* a value of an enum field of a parameter record: a Python int or a str
IntV(n) == [tag |-> "int", i |-> n, s |-> ""]
StrV(n) == [tag |-> "str", i |-> 0, s |-> n]

\* Enum[name]: the member's value, or KeyError (-1) when name is no member
EnumByName(enum, v) ==
    IF v.tag = "str" /\ v.s \in Range(enum)
    THEN (CHOOSE k \in DOMAIN enum : enum[k] = v.s) - 1
    ELSE -1

\* an Enum(value) that answers a value no member has with the first member
EnumByValue_lenient(enum, n) == IF n \in 0 .. (Len(enum) - 1) THEN n ELSE 0

\* Enum(value): the value itself, or ValueError (-1) when no member has it
EnumByValue(enum, n) == IF n \in 0 .. (Len(enum) - 1) THEN n ELSE -1

\* an _enum_value_to_name that answers every integer with the first member
enum_value_to_name_first(enum, v) ==
    IF v.tag = "int" THEN StrV(enum[1]) ELSE v

\* NoiseGenerator2D._enum_value_to_name
enum_value_to_name(enum, v) ==
    IF v.tag = "int"
    THEN IF \E k \in DOMAIN enum : k - 1 = v.i
         THEN StrV(enum[v.i + 1])
         ELSE StrV(enum[1])          \* fallback to first member if not found
    ELSE v

\* {**a, **b}
DictMerge(a, b) ==
    [k \in (DOMAIN a) \cup (DOMAIN b) |-> IF k \in DOMAIN b THEN b[k] ELSE a[k]]

DictSet(d, key, v) ==
    [k \in (DOMAIN d) \cup {key} |-> IF k = key THEN v ELSE d[k]]

\* NoiseGenerator2D.DEFAULT_CONFIG
DEFAULT_CONFIG ==
    [noise_type |-> StrV("PERLIN"),
     seed |-> 0,
     frequency |-> <<1, 100>>,
     offset_x |-> R(0),
     offset_y |-> R(0),
     fractal_type |-> StrV("FBM"),
     octaves |-> 5,
     lacunarity |-> R(2),
     persistence |-> <<1, 2>>,
     weighted_strength |-> R(0),
     ping_pong_strength |-> R(2),
     cellular_distance_function |-> StrV("EUCLIDEAN_SQUARED"),
     cellular_return_type |-> StrV("DISTANCE"),
     cellular_jitter |-> R(1),
     domain_warp_enabled |-> 0,
     domain_warp_type |-> 0,
     domain_warp_amplitude |-> R(30),
     domain_warp_frequency |-> <<1, 20>>,
     domain_warp_fractal_type |-> 0,
     domain_warp_fractal_octaves |-> 5,
     domain_warp_fractal_lacunarity |-> R(2),
     domain_warp_fractal_gain |-> <<1, 2>>]

EnumKeys ==
    [noise_type |-> NoiseType,
     fractal_type |-> FractalType,
     cellular_distance_function |-> CellularDistanceFunction,
     cellular_return_type |-> CellularReturnType]

\* NoiseGenerator2D.from_dict, lines 306-326: the conversion of the record
from_dict_convert(data) ==
    [k \in DOMAIN data |->
        IF k \in DOMAIN EnumKeys THEN enum_value_to_name(EnumKeys[k], data[k])
        ELSE data[k]]

Get(d, k, default) == IF k \in DOMAIN d THEN d[k] ELSE default

(***************************************************************************)
(* domain_warp.py: class DomainWarp2D                                      *)
(***************************************************************************)
PERM_SIZE == 256

\* Optional[int]
Some(v) == [none |-> FALSE, v |-> v]
None == [none |-> TRUE, v |-> 0]

\* states in which a generator seeded from OS entropy may start
Entropy == {900001, 900002}

\* a default_rng that never looks at the seed it is handed
default_rng_unseeded(seed) ==
    {[s |-> e, draws |-> 0] : e \in Entropy}

\* np.random.default_rng(seed): the states the new generator may start in;
\* seed None draws from OS entropy, a negative seed raises ValueError ({})
default_rng(seed) ==
    IF seed.none THEN {[s |-> e, draws |-> 0] : e \in Entropy}
    ELSE IF seed.v < 0 THEN {}
    ELSE {[s |-> seed.v, draws |-> 0]}

\* Generator.shuffle(np.arange(PERM_SIZE)): a permutation fixed by the
\* generator's state
rng_shuffle(rng) ==
    [i \in 0 .. (PERM_SIZE - 1) |->
        (i * 37 + (rng.s % PERM_SIZE) + 101 * rng.draws) % PERM_SIZE]

\* the shuffled table on its own, not concatenated with itself
init_permutation_table_single(rng) == rng_shuffle(rng)

\* DomainWarp2D._init_permutation_table: np.concatenate([perm, perm])
init_permutation_table(rng) ==
    LET perm == rng_shuffle(rng)
    IN  [k \in 0 .. (2 * PERM_SIZE - 1) |-> perm[k % PERM_SIZE]]

Max(a, b) == IF a >= b THEN a ELSE b
Min(a, b) == IF a <= b THEN a ELSE b

\* an octave count taken as given
clamp_octaves_none(n) == n

\* max(1, min(fractal_octaves, 9))
clamp_octaves(n) == Max(1, Min(n, 9))

\* DomainWarp2D.__init__, with rng the generator default_rng(seed) returned
DomainWarp2D_init(enabled, warp_type, amplitude, frequency, fractal_type, fractal_octaves, fractal_lacunarity, fractal_gain, seed, rng) ==
    [enabled |-> enabled,
     warp_type |-> warp_type,
     amplitude |-> amplitude,
     frequency |-> frequency,
     fractal_type |-> fractal_type,
     fractal_octaves |-> clamp_octaves(fractal_octaves),
     fractal_lacunarity |-> fractal_lacunarity,
     fractal_gain |-> fractal_gain,
     seed |-> seed,
     rng |-> [rng EXCEPT !.draws = @ + 1],
     permutation |-> init_permutation_table(rng)]

\* DomainWarp2D.from_dict: the exception it raises, "none" if it returns
DomainWarp2D_from_dict_err(data, seed) ==
    IF EnumByValue(DomainWarpType, Get(data, "domain_warp_type", 0)) = -1
        THEN "ValueError"
    ELSE IF EnumByValue(DomainWarpFractalType,
                        Get(data, "domain_warp_fractal_type", 0)) = -1
        THEN "ValueError"
    ELSE IF default_rng(seed) = {} THEN "ValueError"
    ELSE "none"

\* DomainWarp2D.from_dict
DomainWarp2D_from_dict(data, seed, rng) ==
    DomainWarp2D_init(
        Get(data, "domain_warp_enabled", 0) # 0,
        EnumByValue(DomainWarpType, Get(data, "domain_warp_type", 0)),
        Get(data, "domain_warp_amplitude", R(30)),
        Get(data, "domain_warp_frequency", <<1, 20>>),
        EnumByValue(DomainWarpFractalType, Get(data, "domain_warp_fractal_type", 0)),
        Get(data, "domain_warp_fractal_octaves", 5),
        Get(data, "domain_warp_fractal_lacunarity", R(2)),
        Get(data, "domain_warp_fractal_gain", <<1, 2>>),
        seed, rng)

\* DomainWarp2D.to_dict
DomainWarp2D_to_dict(w) ==
    [domain_warp_enabled |-> IF w.enabled THEN 1 ELSE 0,
     domain_warp_type |-> w.warp_type,
     domain_warp_amplitude |-> w.amplitude,
     domain_warp_frequency |-> w.frequency,
     domain_warp_fractal_type |-> w.fractal_type,
     domain_warp_fractal_gain |-> w.fractal_gain,
     domain_warp_fractal_lacunarity |-> w.fractal_lacunarity,
     domain_warp_fractal_octaves |-> w.fractal_octaves]

\* A coordinate pair as the facade hands it on: the input (x, y) and the
\* warp kernel calls applied to it, each call the kernel's name and scalars.
Point(x, y) == [x |-> x, y |-> y, warp |-> <<>>]

\* _warp_no_fractal / _warp_fractal_progressive / _warp_fractal_independent:
\* the kernel dispatched to and the arguments it is handed
warp_kernel_call(w) ==
    IF w.fractal_type = 0 THEN
        [fn |-> IF w.warp_type = 2 THEN "domain_warp_basic_grid_2d"
                ELSE "domain_warp_simplex_2d",
         perm |-> w.permutation, frequency |-> w.frequency,
         amplitude |-> w.amplitude,
         octaves |-> 0, lacunarity |-> R(0), gain |-> R(0)]
    ELSE
        [fn |-> IF w.fractal_type = 1
                THEN (IF w.warp_type = 2
                      THEN "domain_warp_basic_grid_fractal_progressive_2d"
                      ELSE "domain_warp_simplex_fractal_progressive_2d")
                ELSE (IF w.warp_type = 2
                      THEN "domain_warp_basic_grid_fractal_independent_2d"
                      ELSE "domain_warp_simplex_fractal_independent_2d"),
         perm |-> w.permutation, frequency |-> w.frequency,
         amplitude |-> w.amplitude,
         octaves |-> w.fractal_octaves, lacunarity |-> w.fractal_lacunarity,
         gain |-> w.fractal_gain]

\* a warp_coordinates without the enabled test
warp_coordinates_always(w, pts) ==
    [i \in DOMAIN pts |->
        [pts[i] EXCEPT !.warp = Append(@, warp_kernel_call(w))]]

\* DomainWarp2D.warp_coordinates on flat arrays (a sequence of pairs)
warp_coordinates(w, pts) ==
    IF ~w.enabled THEN pts
    ELSE [i \in DOMAIN pts |->
            [pts[i] EXCEPT !.warp = Append(@, warp_kernel_call(w))]]

\* DomainWarp2D.warp_single
warp_single(w, p) ==
    IF ~w.enabled THEN p
    ELSE warp_coordinates(w, <<p>>)[1]

(***************************************************************************)
(* The generator classes the facade instantiates (PerlinNoise2D,           *)
(* OpenSimplexNoise2D, SimplexSmoothNoise2D, CellularNoise2D,              *)
(* ValueCubicNoise2D, ValueNoise2D) are not among the sources.  Following  *)
(* spec.md they keep their parameters, clamp the octave count to [1, 9],   *)
(* precompute fractal_bounding and evaluate by delegating to the batch     *)
(* driver noise2d_batch.                                                   *)
(***************************************************************************)
GeneratorClass == <<"OpenSimplexNoise2D", "SimplexSmoothNoise2D", "CellularNoise2D",
                    "PerlinNoise2D", "ValueCubicNoise2D", "ValueNoise2D">>

Generator_init(noise_type, p) ==
    [cls |-> GeneratorClass[noise_type + 1],
     noise_type |-> noise_type,
     seed |-> p.seed,
     frequency |-> p.frequency,
     offset |-> p.offset,
     fractal_type |-> p.fractal_type,
     octaves |-> clamp_octaves(p.octaves),
     lacunarity |-> p.lacunarity,
     persistence |-> p.persistence,
     weighted_strength |-> p.weighted_strength,
     ping_pong_strength |-> p.ping_pong_strength,
     fractal_bounding |-> calc_fractal_bounding(clamp_octaves(p.octaves), p.persistence),
     distance_function |-> p.distance_function,
     return_type |-> p.return_type,
     jitter |-> p.jitter]

\* generator.get_values_vectorized(x, y): element i is the value of
\* noise2d_batch for the generator's scalars at pair i
Generator_get_values_vectorized(g, pts) ==
    [i \in DOMAIN pts |-> [fn |-> "noise2d_batch", args |-> g, at |-> pts[i]]]

\* generator.get_value_at(position): the batch driver with N = 1
Generator_get_value_at(g, p) == Generator_get_values_vectorized(g, <<p>>)[1]

(***************************************************************************)
(* noise2d.py: class NoiseGenerator2D                                      *)
(***************************************************************************)
\* _create_generator_from_config: the exception raised, "none" if it returns
create_generator_from_config_err(config) ==
    LET nt == EnumByName(NoiseType, Get(config, "noise_type", StrV("PERLIN")))
    IN  IF nt = -1 THEN "KeyError"
        ELSE IF EnumByName(FractalType, Get(config, "fractal_type", StrV("FBM"))) = -1
            THEN "KeyError"
        ELSE IF nt = 2 /\ EnumByName(CellularDistanceFunction,
                            Get(config, "cellular_distance_function",
                                StrV("EUCLIDEAN_SQUARED"))) = -1
            THEN "KeyError"
        ELSE IF nt = 2 /\ EnumByName(CellularReturnType,
                            Get(config, "cellular_return_type", StrV("DISTANCE"))) = -1
            THEN "KeyError"
        ELSE "none"

\* _create_generator_from_config
create_generator_from_config(config) ==
    LET nt == EnumByName(NoiseType, Get(config, "noise_type", StrV("PERLIN")))
        cellular == nt = 2
    IN  Generator_init(nt,
            [seed |-> config.seed,
             frequency |-> Get(config, "frequency", <<1, 100>>),
             offset |-> <<Get(config, "offset_x", R(0)), Get(config, "offset_y", R(0))>>,
             fractal_type |-> EnumByName(FractalType,
                                         Get(config, "fractal_type", StrV("FBM"))),
             octaves |-> Get(config, "octaves", 5),
             lacunarity |-> Get(config, "lacunarity", R(2)),
             persistence |-> Get(config, "persistence", <<1, 2>>),
             weighted_strength |-> Get(config, "weighted_strength", R(0)),
             ping_pong_strength |-> Get(config, "ping_pong_strength", R(2)),
             distance_function |->
                IF cellular
                THEN EnumByName(CellularDistanceFunction,
                        Get(config, "cellular_distance_function",
                            StrV("EUCLIDEAN_SQUARED")))
                ELSE 1,
             return_type |->
                IF cellular
                THEN EnumByName(CellularReturnType,
                        Get(config, "cellular_return_type", StrV("DISTANCE")))
                ELSE 1,
             jitter |-> IF cellular THEN Get(config, "cellular_jitter", R(1)) ELSE R(1)])

\* _create_domain_warp_from_config
create_domain_warp_from_config_err(config) ==
    DomainWarp2D_from_dict_err(config, Some(Get(config, "seed", 0)))

create_domain_warp_from_config(config, rng) ==
    DomainWarp2D_from_dict(config, Some(Get(config, "seed", 0)), rng)

\* NoiseGenerator2D.__init__(config=config): the exception raised
NoiseGenerator2D_init_err(config) ==
    LET c == DictMerge(DEFAULT_CONFIG, config)
    IN  IF EnumByName(NoiseType, c.noise_type) = -1 THEN "KeyError"
        ELSE IF create_generator_from_config_err(c) # "none"
            THEN create_generator_from_config_err(c)
        ELSE create_domain_warp_from_config_err(c)

\* NoiseGenerator2D.__init__(config=config)
NoiseGenerator2D_init(config, rng) ==
    LET c == DictMerge(DEFAULT_CONFIG, config)
    IN  [config |-> c,
         seed |-> c.seed,
         noise_type |-> c.noise_type.s,
         generator |-> create_generator_from_config(c),
         domain_warp |-> create_domain_warp_from_config(c, rng)]

\* the record NoiseGenerator2D.__init__(seed, noise_type) builds when no
\* config is given
plain_config(seed, noise_type) ==
    [seed |-> IF seed.none THEN 0 ELSE seed.v, noise_type |-> StrV(noise_type)]

\* NoiseGenerator2D.to_dict: the exception raised
to_dict_err(e) ==
    IF \E k \in DOMAIN EnumKeys : EnumByName(EnumKeys[k], e.config[k]) = -1
    THEN "KeyError" ELSE "none"

\* NoiseGenerator2D.to_dict
to_dict(e) ==
    LET c == e.config
    IN  DictMerge(
         [version |-> "1.0",
          noise_type |-> IntV(EnumByName(NoiseType, c.noise_type)),
          seed |-> c.seed,
          frequency |-> c.frequency,
          offset_x |-> c.offset_x,
          offset_y |-> c.offset_y,
          fractal_type |-> IntV(EnumByName(FractalType, c.fractal_type)),
          octaves |-> c.octaves,
          lacunarity |-> c.lacunarity,
          persistence |-> c.persistence,
          weighted_strength |-> c.weighted_strength,
          ping_pong_strength |-> c.ping_pong_strength,
          cellular_distance_function |->
              IntV(EnumByName(CellularDistanceFunction, c.cellular_distance_function)),
          cellular_return_type |->
              IntV(EnumByName(CellularReturnType, c.cellular_return_type)),
          cellular_jitter |-> c.cellular_jitter],
         DomainWarp2D_to_dict(e.domain_warp))

\* NoiseGenerator2D.get_value_at for a 2-element position
get_value_at(e, p) ==
    Generator_get_value_at(e.generator,
        IF e.domain_warp.enabled THEN warp_single(e.domain_warp, p) ELSE p)

\* NoiseGenerator2D.get_values_vectorized
get_values_vectorized(e, pts) ==
    Generator_get_values_vectorized(e.generator,
        IF e.domain_warp.enabled THEN warp_coordinates(e.domain_warp, pts) ELSE pts)

\* np.linspace(start, stop, num) for num >= 0
linspace(start, stop, num) ==
    [k \in 1 .. num |->
        IF num = 1 THEN start
        ELSE RAdd(start, RMul(R(k - 1), RMul(RSub(stop, start), <<1, num - 1>>)))]

\* a generate_region that rejects every non-positive number of samples
generate_region_err_nonpositive(region) ==
    IF Len(region) # 2 THEN "ValueError"
    ELSE IF region[1][3] <= 0 \/ region[2][3] <= 0 THEN "ValueError"
    ELSE "none"

\* generate_region: the exception raised (the dimension check and
\* np.linspace, which rejects a negative number of samples)
generate_region_err(region) ==
    IF Len(region) # 2 THEN "ValueError"
    ELSE IF region[1][3] < 0 \/ region[2][3] < 0 THEN "ValueError"
    ELSE "none"

\* np.meshgrid(x_coords, y_coords, indexing='ij') followed by ravel():
\* xx[a][b] = x_coords[a], yy[a][b] = y_coords[b], flattened row-major
meshgrid_ij_ravel(x_coords, y_coords) ==
    LET nx == Len(x_coords)
        ny == Len(y_coords)
    IN  [k \in 1 .. (nx * ny) |->
            Point(x_coords[((k - 1) \div ny) + 1], y_coords[((k - 1) % ny) + 1])]

\* NoiseGenerator2D.generate_region: an array is its shape and its
\* row-major buffer (result.reshape(shape), shape = xx.shape)
generate_region(e, region) ==
    LET x_coords == linspace(region[1][1], region[1][2], region[1][3])
        y_coords == linspace(region[2][1], region[2][2], region[2][3])
        flat == meshgrid_ij_ravel(x_coords, y_coords)
        warped == IF e.domain_warp.enabled
                  THEN warp_coordinates(e.domain_warp, flat) ELSE flat
    IN  [shape |-> <<Len(x_coords), Len(y_coords)>>,
         data |-> Generator_get_values_vectorized(e.generator, warped)]

\* element [r][c] (0-based) of a 2-D array
ArrayAt(m, r, c) == m.data[r * m.shape[2] + c + 1]

(***************************************************************************)
(* Inputs of the facade specification                                      *)
(***************************************************************************)
MaxDim == 2

MaxMutations == 1

Inst == {1, 2}

Empty == [k \in {} |-> 0]

Warped == [domain_warp_enabled |-> 1]

WarpedFractal == [domain_warp_enabled |-> 1, domain_warp_fractal_type |-> 1]

\* the parameter records handed to the constructor
Records ==
    {Empty, Warped,
     [noise_type |-> StrV("CELLULAR")], [noise_type |-> StrV("BOGUS")],
     [noise_type |-> IntV(2)], [fractal_type |-> StrV("NOPE")],
     [cellular_distance_function |-> StrV("WRONG")],
     [seed |-> 42], [seed |-> -1], [octaves |-> 0], [octaves |-> 12],
     [domain_warp_type |-> 3],
     [domain_warp_type |-> 2, domain_warp_fractal_type |-> 2,
      domain_warp_amplitude |-> R(5)]}
    \cup {DictSet(Warped, v[1], v[2]) :
            v \in {<<"domain_warp_type", 2>>, <<"domain_warp_fractal_type", -1>>}}
    \cup {DictSet(WarpedFractal, "domain_warp_fractal_octaves", -3),
          DictSet(DictSet(WarpedFractal, "domain_warp_fractal_octaves", 16),
                  "octaves", 12)}

\* the dictionaries handed to from_dict
DictRecords ==
    {[noise_type |-> IntV(2)], [noise_type |-> IntV(6)], [noise_type |-> IntV(-1)],
     [noise_type |-> StrV("CELLULAR")],
     [fractal_type |-> IntV(3)], [fractal_type |-> IntV(4)],
     [cellular_distance_function |-> IntV(4)], [cellular_return_type |-> IntV(7)],
     [octaves |-> 3], [domain_warp_type |-> 3],
     DictSet(Warped, "domain_warp_fractal_type", 2)}

SetRecords ==
    {Empty,
     [fractal_type |-> StrV("NOPE")],
     [noise_type |-> StrV("VALUE"), seed |-> 42, domain_warp_type |-> 3],
     [noise_type |-> StrV("VALUE"), seed |-> 42, domain_warp_enabled |-> 1]}

Positions == {<<R(0), R(0)>>, <<R(3), R(-5)>>, <<R(1)>>}

Arrays == {<<Point(R(0), R(0)), Point(R(3), R(-5))>>}

PointOf(position) == Point(position[1], position[2])

Regions ==
    {<<<<R(0), R(2), nx>>, <<R(10), R(11), ny>>>> :
        nx \in 0 .. MaxDim, ny \in 0 .. MaxDim}
    \cup {<<<<R(0), R(2), -1>>, <<R(10), R(11), 1>>>>,
          <<<<R(0), R(2), 1>>, <<R(10), R(11), -1>>>>}
    \cup {<<<<R(0), R(2), 2>>, <<R(10), R(11), 2>>, <<R(0), R(1), 2>>>>}

(***************************************************************************)
(* The facade as a state machine                                           *)
(***************************************************************************)
Put(f, i, v) == [k \in (DOMAIN f) \cup {i} |-> IF k = i THEN v ELSE f[k]]

\* cls(config=cfg) binding instance i; via names the entry point
Build(i, via, data, cfg) ==
    LET err == NoiseGenerator2D_init_err(cfg)
    IN  /\ last' = [op |-> via, inst |-> i, err |-> err, arg |-> data]
        /\ IF err = "none"
           THEN /\ \E rng \in default_rng(Some(DictMerge(DEFAULT_CONFIG, cfg).seed)) :
                     gens' = Put(gens, i, NoiseGenerator2D_init(cfg, rng))
                /\ origin' = Put(origin, i, [via |-> via, data |-> data, n |-> 0, ok |-> TRUE])
           ELSE UNCHANGED <<gens, origin>>
        /\ UNCHANGED <<kvars, bvars, xvars>>

\* NoiseGenerator2D(config=rec)
NoiseGenerator2D_new ==
    /\ gens = <<>>
    /\ \E rec \in Records : Build(1, "init", rec, rec)

\* NoiseGenerator2D(seed, noise_type)
NoiseGenerator2D_new_plain ==
    /\ gens = <<>>
    /\ \E seed \in {None, Some(42)}, nt \in {"PERLIN", "CELLULAR"} :
        Build(1, "init", plain_config(seed, nt), plain_config(seed, nt))

\* NoiseGenerator2D.from_dict(rec)
from_dict ==
    /\ gens = <<>>
    /\ \E rec \in DictRecords : Build(1, "from_dict", rec, from_dict_convert(rec))

\* a second evaluator built the way the first was, from an equal record
second_from_equal_record ==
    /\ 1 \in DOMAIN gens /\ 2 \notin DOMAIN gens
    /\ origin[1].via \in {"init", "from_dict"}
    /\ Build(2, origin[1].via, origin[1].data,
             IF origin[1].via = "from_dict"
             THEN from_dict_convert(origin[1].data) ELSE origin[1].data)

\* d = gens[i].to_dict()
call_to_dict ==
    \E i \in DOMAIN gens :
        /\ last' = [op |-> "to_dict", inst |-> i, err |-> to_dict_err(gens[i]),
                    out |-> IF to_dict_err(gens[i]) = "none"
                            THEN to_dict(gens[i]) ELSE Empty]
        /\ UNCHANGED <<gens, origin, kvars, bvars, xvars>>

\* NoiseGenerator2D.from_dict(d) for the d the latest to_dict returned
from_dict_of_to_dict ==
    /\ last.op = "to_dict" /\ last.err = "none" /\ last.inst = 1
    /\ 2 \notin DOMAIN gens
    /\ LET d == last.out
       IN  Build(2, "round_trip", d, from_dict_convert(d))

\* an assignment to instance i ends what origin recorded about it, and
\* about a round trip made of it; ok tells whether every setter since the
\* last complete (re)build of the evaluator returned without raising
Reassigned(i, via, data, ok) ==
    [k \in DOMAIN origin |->
        IF k = i THEN [via |-> via, data |-> data, n |-> origin[i].n + 1, ok |-> ok]
        ELSE IF origin[k].via = "round_trip"
             THEN [origin[k] EXCEPT !.via = "detached", !.data = Empty]
        ELSE origin[k]]

\* the assignments made to the evaluators so far
RECURSIVE Mutations(_)
Mutations(k) == IF k = 0 THEN 0
                ELSE (IF k \in DOMAIN origin THEN origin[k].n ELSE 0) + Mutations(k - 1)

\* the config property setter, statement by statement: an exception leaves
\* the assignments made before it in place
config_setter(e, value, rng) ==
    LET c == DictMerge(DEFAULT_CONFIG, value)
        e1 == [e EXCEPT !.config = c]
        e3 == [e1 EXCEPT !.noise_type = c.noise_type.s, !.seed = c.seed]
        e4 == [e3 EXCEPT !.generator = create_generator_from_config(c)]
    IN  IF EnumByName(NoiseType, c.noise_type) = -1 THEN e1
        ELSE IF create_generator_from_config_err(c) # "none" THEN e3
        ELSE IF create_domain_warp_from_config_err(c) # "none" THEN e4
        ELSE [e4 EXCEPT !.domain_warp = create_domain_warp_from_config(c, rng)]

\* gens[i].config = value; the second evaluator is kept as built, to compare
\* the first against
set_config ==
    \E i \in DOMAIN gens \cap {1}, value \in SetRecords :
        LET err == NoiseGenerator2D_init_err(value)
            rngs == IF err = "none"
                    THEN default_rng(Some(DictMerge(DEFAULT_CONFIG, value).seed))
                    ELSE {[s |-> 0, draws |-> 0]}
        IN  /\ Mutations(2) < MaxMutations
            /\ \E rng \in rngs : gens' = Put(gens, i, config_setter(gens[i], value, rng))
            /\ last' = [op |-> "set_config", inst |-> i, err |-> err, arg |-> value]
            /\ origin' = Reassigned(i, "set_config", value, err = "none")
            /\ UNCHANGED <<kvars, bvars, xvars>>

\* the noise_type property setter
noise_type_setter(e, value) ==
    IF value = e.noise_type THEN e
    ELSE LET c == DictSet(e.config, "noise_type", StrV(value))
             e2 == [e EXCEPT !.noise_type = value, !.config = c]
         IN  IF create_generator_from_config_err(c) # "none" THEN e2
             ELSE [e2 EXCEPT !.generator = create_generator_from_config(c)]

\* gens[i].noise_type = value
set_noise_type ==
    \E i \in DOMAIN gens \cap {1}, value \in {"VALUE", "CELLULAR"} :
        LET err == IF value = gens[i].noise_type THEN "none"
                   ELSE create_generator_from_config_err(
                            DictSet(gens[i].config, "noise_type", StrV(value)))
        IN  /\ Mutations(2) < MaxMutations
            /\ gens' = Put(gens, i, noise_type_setter(gens[i], value))
            /\ last' = [op |-> "set_noise_type", inst |-> i, err |-> err, arg |-> value]
            /\ origin' = Reassigned(i, "set_noise_type", Empty,
                                    origin[i].ok /\ err = "none")
            /\ UNCHANGED <<kvars, bvars, xvars>>

\* gens[i].get_value_at(position)
call_get_value_at ==
    \E i \in DOMAIN gens, position \in Positions :
        IF Len(position) # 2
        THEN /\ last' = [op |-> "get_value_at", inst |-> i, err |-> "ValueError",
                         arg |-> position]
             /\ UNCHANGED <<gens, origin, kvars, bvars, xvars>>
        ELSE LET v == get_value_at(gens[i], Point(position[1], position[2]))
             IN  /\ last' = [op |-> "get_value_at", inst |-> i, err |-> "none",
                             arg |-> position, out |-> v]
                 /\ UNCHANGED <<gens, origin, kvars, bvars, xvars>>

\* gens[i].get_values_vectorized(x, y)
call_get_values_vectorized ==
    \E i \in DOMAIN gens, pts \in Arrays :
        /\ last' = [op |-> "get_values_vectorized", inst |-> i, err |-> "none",
                    arg |-> pts, out |-> get_values_vectorized(gens[i], pts)]
        /\ UNCHANGED <<gens, origin, kvars, bvars, xvars>>

\* gens[i].generate_region(region)
call_generate_region ==
    \E i \in DOMAIN gens, region \in Regions :
        /\ last' = [op |-> "generate_region", inst |-> i,
                    err |-> generate_region_err(region), arg |-> region,
                    out |-> IF generate_region_err(region) = "none"
                            THEN generate_region(gens[i], region)
                            ELSE [shape |-> <<0, 0>>, data |-> <<>>]]
        /\ UNCHANGED <<gens, origin, kvars, bvars, xvars>>

\* gens[i].domain_warp.warp_coordinates(x, y)
call_warp_coordinates ==
    \E i \in DOMAIN gens, pts \in Arrays :
        /\ last' = [op |-> "warp_coordinates", inst |-> i, err |-> "none",
                    arg |-> pts, out |-> warp_coordinates(gens[i].domain_warp, pts)]
        /\ UNCHANGED <<gens, origin, kvars, bvars, xvars>>

\* gens[i].domain_warp.warp_single(x, y)
call_warp_single ==
    \E i \in DOMAIN gens, position \in {p \in Positions : Len(p) = 2} :
        /\ last' = [op |-> "warp_single", inst |-> i, err |-> "none",
                    arg |-> position,
                    out |-> warp_single(gens[i].domain_warp,
                                        Point(position[1], position[2]))]
        /\ UNCHANGED <<gens, origin, kvars, bvars, xvars>>

Init == KernelIdle /\ FacadeIdle /\ BatchIdle /\ OthersIdle

Next ==
    \/ NoiseGenerator2D_new
    \/ NoiseGenerator2D_new_plain
    \/ from_dict
    \/ second_from_equal_record
    \/ call_to_dict
    \/ from_dict_of_to_dict
    \/ set_config
    \/ set_noise_type
    \/ call_get_value_at
    \/ call_get_values_vectorized
    \/ call_generate_region
    \/ call_warp_coordinates
    \/ call_warp_single

Spec == Init /\ [][Next]_vars

(***************************************************************************)
(* The batch drivers under prange: noise2d_batch and domain_warp_2d_batch  *)
(* of kernels.py and the six kernels of domain_warp.py.  A sampler's       *)
(* result is carried as the arguments it was called with, so an output     *)
(* element is the record of what its iteration read and in which order.    *)
(***************************************************************************)
MaxLen == 2

Workers == {1, 2}

\* array elements: a float64, or the content of np.empty before it is set
Val(r) == [kind |-> "num", v |-> r]
Unset == [kind |-> "unset"]

XArray(n) == [k \in 1 .. n |-> Val(R(4 * k - 1))]
YArray(n) == [k \in 1 .. n |-> Val(R(3 - 5 * k))]

\* np.empty(n): the heap with the new array, and the new array's identity
np_empty(h, n) == [heap |-> Append(h, [k \in 1 .. n |-> Unset]), id |-> Len(h) + 1]

\* an x.copy() that hands back x itself
ndarray_copy_alias(h, id) == [heap |-> h, id |-> id]

\* x.copy()
ndarray_copy(h, id) == [heap |-> Append(h, h[id]), id |-> Len(h) + 1]

\* the objects a batch call takes its scalars from
StoredObjects ==
    {[kind |-> "generator",
      o |-> Generator_init(nt,
              [seed |-> sd, frequency |-> <<1, 100>>, offset |-> <<R(0), R(0)>>,
               fractal_type |-> ft, octaves |-> oc, lacunarity |-> R(2),
               persistence |-> <<1, 2>>, weighted_strength |-> R(0),
               ping_pong_strength |-> R(2), distance_function |-> 1,
               return_type |-> 1, jitter |-> R(1)])] :
        sd \in KernelSeeds, nt \in {0, 3}, ft \in {0, 1}, oc \in 1 .. MaxOctaves}
    \cup
    {[kind |-> "warp_scalars",
      o |-> [seed |-> sd, warp_type |-> wt, amplitude |-> R(30),
             frequency |-> <<1, 20>>, fractal_type |-> ft, octaves |-> MaxOctaves,
             lacunarity |-> R(2), gain |-> <<1, 2>>,
             fractal_bounding |-> calc_fractal_bounding(MaxOctaves, <<1, 2>>)]] :
        sd \in KernelSeeds, wt \in 0 .. 2, ft \in 0 .. 2}
    \cup
    {[kind |-> "DomainWarp2D",
      o |-> DomainWarp2D_init(TRUE, wt, R(30), <<1, 20>>, ft, MaxOctaves, R(2),
                              <<1, 2>>, Some(42), [s |-> 42, draws |-> 0])] :
        wt \in 0 .. 2, ft \in 0 .. 2}

\* the kernel an object evaluates with
BatchFn(st) ==
    IF st.kind = "generator" THEN "noise2d_batch"
    ELSE IF st.kind = "warp_scalars" THEN "domain_warp_2d_batch"
    ELSE warp_kernel_call(st.o).fn

\* the scalars handed to the kernel, by value
BatchArgs(st) ==
    IF st.kind = "generator"
    THEN [seed |-> st.o.seed, frequency |-> st.o.frequency,
          noise_type |-> st.o.noise_type, fractal_type |-> st.o.fractal_type,
          octaves |-> st.o.octaves, lacunarity |-> st.o.lacunarity,
          gain |-> st.o.persistence, fractal_bounding |-> st.o.fractal_bounding]
    ELSE IF st.kind = "warp_scalars" THEN st.o
    ELSE warp_kernel_call(st.o)

ProgressiveKernels == {"domain_warp_simplex_fractal_progressive_2d",
                       "domain_warp_basic_grid_fractal_progressive_2d"}
IndependentKernels == {"domain_warp_simplex_fractal_independent_2d",
                       "domain_warp_basic_grid_fractal_independent_2d"}
PlainKernels == {"domain_warp_simplex_2d", "domain_warp_basic_grid_2d"}

\* sampler evaluations one element takes
Trips(c) ==
    IF c.fn \in {"noise2d_batch", "domain_warp_2d_batch"}
    THEN (IF c.args.fractal_type = 0 THEN 1 ELSE c.args.octaves)
    ELSE IF c.fn \in PlainKernels THEN 1
    ELSE c.args.octaves

IdleFrame ==
    [pc |-> "idle", i |-> 0, x |-> Unset, y |-> Unset, seed |-> 0,
     amp |-> R(0), freq |-> R(0), octs |-> <<>>]

\* the head of the loop body for index i: the locals before the octave loop
frame_init(c, h, i) ==
    IF c.fn = "noise2d_batch" THEN
        LET xs == RMul(h[c.x][i].v, c.args.frequency)
            ys == RMul(h[c.y][i].v, c.args.frequency)
            t == IF c.args.noise_type \in {0, 1}
                 THEN RMul(RAdd(xs, ys), F2) ELSE R(0)
        IN  [pc |-> "loop", i |-> i, x |-> Val(RAdd(xs, t)), y |-> Val(RAdd(ys, t)),
             seed |-> c.args.seed, amp |-> c.args.fractal_bounding,
             freq |-> R(1), octs |-> <<>>]
    ELSE IF c.fn = "domain_warp_2d_batch" THEN
        [pc |-> "loop", i |-> i, x |-> h[c.x][i], y |-> h[c.y][i],
         seed |-> c.args.seed,
         amp |-> RMul(c.args.amplitude, c.args.fractal_bounding),
         freq |-> c.args.frequency, octs |-> <<>>]
    ELSE IF c.fn \in ProgressiveKernels THEN
        [pc |-> "loop", i |-> i, x |-> h[c.out_x][i], y |-> h[c.out_y][i],
         seed |-> 0, amp |-> c.args.amplitude, freq |-> c.args.frequency,
         octs |-> <<>>]
    ELSE
        [pc |-> "loop", i |-> i, x |-> Unset, y |-> Unset,
         seed |-> 0, amp |-> c.args.amplitude, freq |-> c.args.frequency,
         octs |-> <<>>]

\* domain_warp.py
ROTATE_2D_COS == <<3, 5>>

ROTATE_2D_SIN == <<4, 5>>

\* wx += dx ; wy += dy
AddedAsIs == <<R(1), R(0)>>

\* the single-point function one octave of a warp kernel calls, the seed it
\* is handed (None where it is handed the permutation table instead), the
\* tables that function reads, and the (cos, sin) its delta is turned by
\* before it is added
warp_octave(c, f) ==
    IF c.fn = "domain_warp_2d_batch" THEN
        [single |-> IF c.args.warp_type = 2 THEN "_domain_warp_basic_grid_single"
                    ELSE "_domain_warp_simplex_single",
         seed |-> Some(f.seed),
         outgrad_only |-> c.args.warp_type = 1,
         reads |-> IF c.args.warp_type = 2 THEN {"_RAND_VECS_2D"}
                   ELSE IF c.args.warp_type = 1 THEN {"_RAND_VECS_2D"}
                   ELSE {"_GRADIENTS_2D", "_RAND_VECS_2D"},
         rot |-> AddedAsIs]
    ELSE
        [single |-> IF c.fn \in {"domain_warp_basic_grid_2d",
                                 "domain_warp_basic_grid_fractal_progressive_2d",
                                 "domain_warp_basic_grid_fractal_independent_2d"}
                    THEN "_basic_grid_warp_single" ELSE "_simplex_warp_single",
         seed |-> None,
         outgrad_only |-> FALSE,
         reads |-> IF c.fn \in {"domain_warp_basic_grid_2d",
                                "domain_warp_basic_grid_fractal_progressive_2d",
                                "domain_warp_basic_grid_fractal_independent_2d"}
                   THEN {"perm"} ELSE {"perm", "SIMPLEX_GRADIENTS_2D"},
         rot |-> IF c.fn \in ProgressiveKernels
                 THEN <<ROTATE_2D_COS, ROTATE_2D_SIN>> ELSE AddedAsIs]

\* one sampler evaluation of the loop body and the updates that follow it
frame_step(c, h, f) ==
    IF c.fn = "noise2d_batch" THEN
        LET g == [f EXCEPT !.octs = Append(@, [table |-> f.seed, x |-> f.x, y |-> f.y])]
        IN  IF c.args.fractal_type = 0 THEN g
            ELSE [g EXCEPT !.x = Val(RMul(f.x.v, c.args.lacunarity)),
                           !.y = Val(RMul(f.y.v, c.args.lacunarity)),
                           !.seed = int32_inc(f.seed)]
    ELSE IF c.fn = "domain_warp_2d_batch" THEN
        LET g == [f EXCEPT !.octs = Append(@,
                    [table |-> f.seed, freq |-> f.freq, amp |-> f.amp,
                     warp_type |-> c.args.warp_type,
                     call |-> warp_octave(c, f),
                     at |-> IF c.args.fractal_type = 1
                            THEN <<>> ELSE <<f.x, f.y>>])]
        IN  IF c.args.fractal_type = 0 THEN g
            ELSE [g EXCEPT !.seed = int32_inc(f.seed),
                           !.amp = RMul(f.amp, c.args.gain),
                           !.freq = RMul(f.freq, c.args.lacunarity)]
    ELSE
        LET g == [f EXCEPT !.octs = Append(@,
                    [table |-> c.args.perm, freq |-> f.freq, amp |-> f.amp,
                     warp_type |-> 0,
                     call |-> warp_octave(c, f),
                     at |-> IF c.fn \in ProgressiveKernels
                            THEN <<>> ELSE <<h[c.x][f.i], h[c.y][f.i]>>])]
        IN  IF c.fn \in PlainKernels THEN g
            ELSE [g EXCEPT !.freq = RMul(f.freq, c.args.lacunarity),
                           !.amp = RMul(f.amp, c.args.gain)]

\* the tail of the loop body: out[i] = ... (out_x[i], out_y[i] for a warp)
frame_store(c, h, f) ==
    IF c.fn = "noise2d_batch" THEN
        [h EXCEPT ![c.out_x][f.i] =
            [kind |-> "noise", fractal_type |-> c.args.fractal_type, octs |-> f.octs]]
    ELSE
        LET x0 == IF c.fn \in PlainKernels \cup IndependentKernels
                  THEN h[c.x][f.i] ELSE f.x
            y0 == IF c.fn \in PlainKernels \cup IndependentKernels
                  THEN h[c.y][f.i] ELSE f.y
            hx == [h EXCEPT ![c.out_x][f.i] =
                    [kind |-> "warp_x", x0 |-> x0, y0 |-> y0, octs |-> f.octs]]
        IN  [hx EXCEPT ![c.out_y][f.i] =
                    [kind |-> "warp_y", x0 |-> x0, y0 |-> y0, octs |-> f.octs]]

\* loop-body locals shared by all the threads
prange_shared(fs, w, f) ==
    [v \in DOMAIN fs |->
        IF v = w THEN f
        ELSE [fs[v] EXCEPT !.seed = f.seed, !.amp = f.amp, !.freq = f.freq]]

\* prange: the variables assigned in the loop body are private to the
\* iteration; thread w's become f
prange_private(fs, w, f) == [fs EXCEPT ![w] = f]

BatchInit ==
    /\ \E n \in 0 .. MaxLen : heap = <<XArray(n), YArray(n)>>
    /\ stored \in StoredObjects
    /\ bcall = [pc |-> "idle"]
    /\ frames = [w \in Workers |-> IdleFrame]

\* entry of the kernel up to its prange loop: n = len(x), the output arrays
batch_call ==
    /\ bcall.pc = "idle"
    /\ LET fn == BatchFn(stored)
           n == Len(heap[1])
           a1 == IF fn \in ProgressiveKernels
                 THEN ndarray_copy(heap, 1) ELSE np_empty(heap, n)
           a2 == IF fn = "noise2d_batch" THEN [heap |-> a1.heap, id |-> 0]
                 ELSE IF fn \in ProgressiveKernels
                 THEN ndarray_copy(a1.heap, 2) ELSE np_empty(a1.heap, n)
       IN  /\ heap' = a2.heap
           /\ bcall' = [pc |-> "prange", fn |-> fn, args |-> BatchArgs(stored),
                        x |-> 1, y |-> 2, out_x |-> a1.id, out_y |-> a2.id,
                        n |-> n, pending |-> 1 .. n, by |-> <<>>,
                        entry |-> heap, start |-> a2.heap, caller |-> stored]
    /\ UNCHANGED <<frames, stored, kvars, fvars, xvars>>

\* a free thread starts the iteration for an index not yet run
prange_take ==
    /\ bcall.pc = "prange"
    /\ \E w \in Workers, i \in bcall.pending :
        /\ frames[w].pc = "idle"
        /\ frames' = prange_private(frames, w, frame_init(bcall, heap, i))
        /\ bcall' = [bcall EXCEPT !.pending = @ \ {i}, !.by = Put(@, i, w)]
    /\ UNCHANGED <<heap, stored, kvars, fvars, xvars>>

\* a thread runs one sampler evaluation of its iteration
prange_octave ==
    /\ bcall.pc = "prange"
    /\ \E w \in Workers :
        /\ frames[w].pc = "loop"
        /\ Len(frames[w].octs) < Trips(bcall)
        /\ frames' = prange_private(frames, w, frame_step(bcall, heap, frames[w]))
    /\ UNCHANGED <<heap, bcall, stored, kvars, fvars, xvars>>

\* a thread stores its iteration's result and is free again
prange_store ==
    /\ bcall.pc = "prange"
    /\ \E w \in Workers :
        /\ frames[w].pc = "loop"
        /\ Len(frames[w].octs) >= Trips(bcall)
        /\ heap' = frame_store(bcall, heap, frames[w])
        /\ frames' = prange_private(frames, w, [frames[w] EXCEPT !.pc = "idle"])
    /\ UNCHANGED <<bcall, stored, kvars, fvars, xvars>>

\* the prange loop is over: return out (out_x, out_y)
batch_return ==
    /\ bcall.pc = "prange"
    /\ bcall.pending = {}
    /\ \A w \in Workers : frames[w].pc = "idle"
    /\ bcall' = [bcall EXCEPT !.pc = "returned"]
    /\ UNCHANGED <<heap, frames, stored, kvars, fvars, xvars>>

BatchNext ==
    \/ batch_call
    \/ prange_take
    \/ prange_octave
    \/ prange_store
    \/ batch_return

InitBatch == BatchInit /\ KernelIdle /\ FacadeIdle /\ OthersIdle

SpecBatch == InitBatch /\ [][BatchNext]_vars

\* the loop run by one thread, index after index
RECURSIVE run_body(_, _, _, _)
run_body(c, h, f, k) ==
    IF k = 0 THEN frame_store(c, h, f)
    ELSE run_body(c, h, frame_step(c, h, f), k - 1)

RECURSIVE sequential(_, _, _)
sequential(c, h, i) ==
    IF i > c.n THEN h
    ELSE sequential(c, run_body(c, h, frame_init(c, h, i), Trips(c)), i + 1)

(***************************************************************************)
(* kernels.py: _single_cellular.  The hash and the random-vector table are *)
(* left open: the cells the loop visits are given as the vector            *)
(* (vec_x, vec_y) and the hash h the code computes for each.               *)
(***************************************************************************)
MaxCells == 2

\* distance0 = distance1 = 1e10 before the loop, at a scale the model's
\* integers hold; every candidate distance is below it
FarAway == R(10000)

\* np.sqrt on a rational that is a perfect square
np_sqrt(r) ==
    <<CHOOSE k \in 0 .. r[1] : k * k = r[1], CHOOSE k \in 0 .. r[2] : k * k = r[2]>>

\* the new_dist of one cell
cell_distance(dist_func, v) ==
    LET sq == RAdd(RMul(v[1], v[1]), RMul(v[2], v[2]))
        ab == RAdd(RAbs(v[1]), RAbs(v[2]))
    IN  IF dist_func \in {0, 1} THEN sq
        ELSE IF dist_func = 2 THEN ab
        ELSE RAdd(ab, sq)

\* the loop over the cells: distance0, distance1 and closest_hash after it
RECURSIVE cell_loop(_, _, _, _)
cell_loop(dist_func, cells, k, acc) ==
    IF k > Len(cells) THEN acc
    ELSE LET new_dist == cell_distance(dist_func, cells[k].vec)
             nxt == IF RLt(new_dist, acc.distance1)
                    THEN IF RLt(new_dist, acc.distance0)
                         THEN [distance0 |-> new_dist, distance1 |-> acc.distance0,
                               closest_hash |-> cells[k].h]
                         ELSE [acc EXCEPT !.distance1 = new_dist]
                    ELSE acc
         IN  cell_loop(dist_func, cells, k + 1, nxt)

\* a test that takes both roots for every Euclidean call
takes_sqrt_always(dist_func, return_type, which) == dist_func = 0

\* whether np.sqrt is applied to distance0 (which = 0) or distance1 (which = 1)
takes_sqrt(dist_func, return_type, which) ==
    /\ dist_func = 0
    /\ return_type >= 1
    /\ (which = 1 => return_type >= 2)

\* _single_cellular: the distances after the loop, after the square roots,
\* and the value returned
single_cellular(a) ==
    LET l == cell_loop(a.dist_func, a.cells, 1,
                 [distance0 |-> FarAway, distance1 |-> FarAway, closest_hash |-> 0])
        d0 == IF takes_sqrt(a.dist_func, a.return_type, 0)
              THEN np_sqrt(l.distance0) ELSE l.distance0
        d1 == IF takes_sqrt(a.dist_func, a.return_type, 1)
              THEN np_sqrt(l.distance1) ELSE l.distance1
        rt == a.return_type
        num == IF rt = 1 THEN RSub(d0, R(1))
               ELSE IF rt = 2 THEN RSub(d1, R(1))
               ELSE IF rt = 3 THEN RSub(RMul(RAdd(d1, d0), <<1, 2>>), R(1))
               ELSE IF rt = 4 THEN RSub(RSub(d1, d0), R(1))
               ELSE IF rt = 5 THEN RSub(RMul(RMul(d1, d0), <<1, 2>>), R(1))
               ELSE IF d1 # R(0) THEN RSub(RMul(d0, RInv(d1)), R(1))
               ELSE R(-1)
    IN  [done |-> TRUE, loop |-> l, distance0 |-> d0, distance1 |-> d1,
         out |-> IF rt = 0
                 THEN [kind |-> "hash_over_2_31", h |-> l.closest_hash]
                 ELSE [kind |-> "num", v |-> num]]

\* (vec_x, vec_y) of a visited cell; the Euclidean lengths are rational
CellVectors ==
    {<<R(0), <<1, 2>>>>, <<<<3, 5>>, <<-4, 5>>>>, <<R(0), <<-3, 2>>>>,
     <<<<6, 5>>, <<8, 5>>>>, <<R(0), R(0)>>}

RECURSIVE CellLists(_)
CellLists(n) ==
    IF n = 0 THEN {<<>>}
    ELSE {Append(c, [vec |-> v, h |-> 1000 * n - 1500]) :
            c \in CellLists(n - 1), v \in CellVectors}

CellularInputs ==
    [dist_func : 0 .. 3, return_type : 0 .. 6, cells : CellLists(MaxCells)]

InitCellular ==
    /\ pfn = "_single_cellular"
    /\ pin \in CellularInputs
    /\ pout = [done |-> FALSE]
    /\ KernelIdle /\ FacadeIdle /\ BatchIdle /\ StatefulIdle

single_cellular_call ==
    /\ pfn = "_single_cellular"
    /\ ~pout.done
    /\ pout' = single_cellular(pin)
    /\ UNCHANGED <<pfn, pin, kvars, fvars, bvars, svars>>

SpecCellular == InitCellular /\ [][single_cellular_call]_vars

(***************************************************************************)
(* Selection by integer code: what the record's codes select in the        *)
(* kernels and in the facade's constructor.  Here the members are looked   *)
(* up in enums.py as it stands.                                            *)
(***************************************************************************)
\* the reference ordering
ReferenceNoise == <<"OpenSimplex2", "OpenSimplex2S", "Cellular", "Perlin",
                    "ValueCubic", "Value">>

ReferenceFractal == <<"None", "FBM", "Ridged", "PingPong">>

ReferenceWarp == <<"OpenSimplex2", "OpenSimplex2Reduced", "BasicGrid">>

ReferenceWarpFractal == <<"None", "Progressive", "Independent">>

\* the algorithm each sampler, class and member implements
Implements ==
    [_single_simplex |-> "OpenSimplex2",
     _single_opensimplex2s |-> "OpenSimplex2S",
     _single_cellular |-> "Cellular",
     _single_perlin |-> "Perlin",
     _single_value_cubic |-> "ValueCubic",
     _single_value |-> "Value",
     OpenSimplexNoise2D |-> "OpenSimplex2",
     SimplexSmoothNoise2D |-> "OpenSimplex2S",
     CellularNoise2D |-> "Cellular",
     PerlinNoise2D |-> "Perlin",
     ValueCubicNoise2D |-> "ValueCubic",
     ValueNoise2D |-> "Value",
     OPEN_SIMPLEX_2 |-> "OpenSimplex2",
     OPEN_SIMPLEX_2S |-> "OpenSimplex2S",
     CELLULAR |-> "Cellular",
     PERLIN |-> "Perlin",
     VALUE_CUBIC |-> "ValueCubic",
     VALUE |-> "Value",
     NONE |-> "None",
     FBM |-> "FBM",
     RIDGED |-> "Ridged",
     PING_PONG |-> "PingPong",
     OPEN_SIMPLEX_2_REDUCED |-> "OpenSimplex2Reduced",
     BASIC_GRID |-> "BasicGrid",
     PROGRESSIVE |-> "Progressive",
     INDEPENDENT |-> "Independent",
     none |-> "none"]

\* _apply_single
apply_single_sampler(noise_type) ==
    IF noise_type = 0 THEN "_single_simplex"
    ELSE IF noise_type = 1 THEN "_single_opensimplex2s"
    ELSE IF noise_type = 2 THEN "_single_cellular"
    ELSE IF noise_type = 3 THEN "_single_perlin"
    ELSE IF noise_type = 4 THEN "_single_value_cubic"
    ELSE "_single_value"

\* _fractal_noise: the branch taken
fractal_noise_branch(fractal_type) ==
    IF fractal_type = 0 THEN "NONE"
    ELSE IF fractal_type = 1 THEN "FBM"
    ELSE IF fractal_type = 2 THEN "RIDGED"
    ELSE "PING_PONG"

\* domain_warp_2d_batch: the branch taken on fractal_type
domain_warp_fractal_branch(fractal_type) ==
    IF fractal_type = 0 THEN "NONE"
    ELSE IF fractal_type = 1 THEN "PROGRESSIVE"
    ELSE "INDEPENDENT"

\* domain_warp_2d_batch: the branch taken on warp_type
domain_warp_type_branch(warp_type) ==
    IF warp_type = 2 THEN "BASIC_GRID"
    ELSE IF warp_type = 1 THEN "OPEN_SIMPLEX_2_REDUCED"
    ELSE "OPEN_SIMPLEX_2"

\* NoiseType.<name>: the member's value, -1 when the class has no such member
\* (AttributeError)
NoiseType_getattr(name) ==
    IF name \in Range(NoiseType)
    THEN (CHOOSE k \in DOMAIN NoiseType : NoiseType[k] = name) - 1
    ELSE -1

\* _create_generator_from_config: the if/elif chain on noise_type, each
\* comparison looking its member up before it compares
generator_chain(noise_type) ==
    LET raise == [err |-> "AttributeError", cls |-> "none"]
        make(c) == [err |-> "none", cls |-> c]
    IN  IF noise_type = NoiseType_getattr("PERLIN") THEN make("PerlinNoise2D")
        ELSE IF NoiseType_getattr("SIMPLEX") = -1 THEN raise
        ELSE IF noise_type = NoiseType_getattr("SIMPLEX") THEN make("OpenSimplexNoise2D")
        ELSE IF NoiseType_getattr("SIMPLEX_SMOOTH") = -1 THEN raise
        ELSE IF noise_type = NoiseType_getattr("SIMPLEX_SMOOTH")
            THEN make("SimplexSmoothNoise2D")
        ELSE IF noise_type = NoiseType_getattr("CELLULAR") THEN make("CellularNoise2D")
        ELSE IF noise_type = NoiseType_getattr("VALUE_CUBIC")
            THEN make("ValueCubicNoise2D")
        ELSE IF noise_type = NoiseType_getattr("VALUE") THEN make("ValueNoise2D")
        ELSE [err |-> "NotImplementedError", cls |-> "none"]

\* from_dict's conversion of the code followed by the constructor's chain
facade_generator(code) ==
    generator_chain(EnumByName(NoiseType, enum_value_to_name(NoiseType, IntV(code))))

\* the codes of one record and what each of them selects
select(codes) ==
    [done |-> TRUE,
     member |-> [noise |-> NoiseType[codes.noise_type + 1],
                 fractal |-> FractalType[codes.fractal_type + 1],
                 warp |-> DomainWarpType[codes.warp_type + 1],
                 warp_fractal |-> DomainWarpFractalType[codes.warp_fractal + 1]],
     kernel |-> [noise |-> apply_single_sampler(codes.noise_type),
                 fractal |-> fractal_noise_branch(codes.fractal_type),
                 warp |-> domain_warp_type_branch(codes.warp_type),
                 warp_fractal |-> domain_warp_fractal_branch(codes.warp_fractal)],
     facade |-> facade_generator(codes.noise_type)]

Codes == [noise_type : 0 .. 5, fractal_type : 0 .. 3, warp_type : 0 .. 2,
          warp_fractal : 0 .. 2]

InitSelect ==
    /\ pfn = "select"
    /\ pin \in Codes
    /\ pout = [done |-> FALSE]
    /\ KernelIdle /\ FacadeIdle /\ BatchIdle /\ StatefulIdle

select_call ==
    /\ pfn = "select"
    /\ ~pout.done
    /\ pout' = select(pin)
    /\ UNCHANGED <<pfn, pin, kvars, fvars, bvars, svars>>

SpecSelect == InitSelect /\ [][select_call]_vars

(***************************************************************************)
(* One DomainWarp2D instance, used directly: construction, assignments to  *)
(* its attributes and to its seed property, warp_coordinates, warp_single  *)
(* and to_dict.                                                            *)
(***************************************************************************)
MaxAssign == 2

WarpSeeds == {None, Some(1), Some(2), Some(-1)}

\* the values assigned to each plain attribute
AttrValues ==
    [enabled |-> BOOLEAN,
     warp_type |-> 0 .. 2,
     amplitude |-> {R(10)},
     frequency |-> {<<1, 10>>},
     fractal_type |-> 0 .. 2,
     fractal_octaves |-> {3},
     fractal_lacunarity |-> {R(3)},
     fractal_gain |-> {<<1, 4>>}]

\* DomainWarp2D(...) with the other arguments at their defaults
DomainWarp2D_new ==
    \E enabled \in BOOLEAN, warp_type \in {0, 2}, fractal_type \in {0, 1} :
    \E seed \in WarpSeeds :
    \E rng \in default_rng(seed) :
        /\ ~dw.alive
        /\ dw' = [alive |-> TRUE, n |-> 0,
                  obj |-> DomainWarp2D_init(enabled, warp_type, R(30), <<1, 20>>,
                                            fractal_type, 5, R(2), <<1, 2>>,
                                            seed, rng)]
        /\ dwop' = [op |-> "__init__", before |-> <<>>,
                    result |-> init_permutation_table(rng)]
        /\ UNCHANGED <<kvars, fvars, bvars, pvars, uvars, ovars>>

\* an attribute assignment that also runs _init_permutation_table
object_setattr_rebuild(w, name, value) ==
    [w EXCEPT ![name] = value,
              !.rng = [@ EXCEPT !.draws = @ + 1],
              !.permutation = init_permutation_table(w.rng)]

\* instance.<name> = value for a plain attribute (set in __init__, no property)
object_setattr(w, name, value) == [w EXCEPT ![name] = value]

\* seed.setter: default_rng(value) raises after _seed was assigned, or the
\* table is rebuilt from the new generator
seed_setter(w, value, rngs) ==
    IF rngs = {} THEN {[w EXCEPT !.seed = value]}
    ELSE {[w EXCEPT !.seed = value,
                    !.rng = [rng EXCEPT !.draws = @ + 1],
                    !.permutation = init_permutation_table(rng)] : rng \in rngs}

assign_attribute ==
    \E name \in DOMAIN AttrValues : \E value \in AttrValues[name] :
        /\ dw.alive /\ dw.n < MaxAssign
        /\ dw' = [dw EXCEPT !.n = @ + 1, !.obj = object_setattr(@, name, value)]
        /\ dwop' = [op |-> "setattr", before |-> dw.obj.permutation, result |-> name]
        /\ UNCHANGED <<kvars, fvars, bvars, pvars, uvars, ovars>>

assign_seed ==
    /\ dw.alive
    /\ \E value \in WarpSeeds : \E w \in seed_setter(dw.obj, value, default_rng(value)) :
        /\ dw.n < MaxAssign
        /\ dw' = [dw EXCEPT !.n = @ + 1, !.obj = w]
        /\ dwop' = [op |-> "seed.setter", before |-> dw.obj.permutation,
                    result |-> IF default_rng(value) = {} THEN "ValueError" ELSE "none"]
        /\ UNCHANGED <<kvars, fvars, bvars, pvars, uvars, ovars>>

WarpPoints == {Point(R(0), R(0)), Point(R(1), <<1, 2>>)}

instance_warp_coordinates ==
    \E pts \in {<<p>> : p \in WarpPoints} \cup {<<p, q>> : p, q \in WarpPoints} :
        /\ dw.alive
        /\ dwop' = [op |-> "warp_coordinates", before |-> dw.obj.permutation,
                    result |-> warp_coordinates(dw.obj, pts)]
        /\ UNCHANGED <<dw, kvars, fvars, bvars, pvars, uvars, ovars>>

instance_warp_single ==
    \E p \in WarpPoints :
        /\ dw.alive
        /\ dwop' = [op |-> "warp_single", before |-> dw.obj.permutation,
                    result |-> warp_single(dw.obj, p)]
        /\ UNCHANGED <<dw, kvars, fvars, bvars, pvars, uvars, ovars>>

instance_to_dict ==
    /\ dw.alive
    /\ dwop' = [op |-> "to_dict", before |-> dw.obj.permutation,
                result |-> DomainWarp2D_to_dict(dw.obj)]
    /\ UNCHANGED <<dw, kvars, fvars, bvars, pvars, uvars, ovars>>

InitWarp == KernelIdle /\ FacadeIdle /\ BatchIdle /\ PureIdle /\ StatefulIdle

WarpNext ==
    \/ DomainWarp2D_new
    \/ assign_attribute
    \/ assign_seed
    \/ instance_warp_coordinates
    \/ instance_warp_single
    \/ instance_to_dict

SpecWarp == InitWarp /\ [][WarpNext]_vars

(***************************************************************************)
(* tilemap/tileset.py: TileSet.get_tile_rect on a tileset whose grid was   *)
(* set by set_grid_size or load_from_image.                                *)
(***************************************************************************)
MaxGrid == 3

\* TileSet.get_tile_rect
get_tile_rect(self, tile_id) ==
    IF self.columns = 0 \/ tile_id < 0
    THEN [done |-> TRUE, none |-> TRUE, rect |-> <<>>]
    ELSE LET col == tile_id % self.columns
             row == tile_id \div self.columns
             x == col * self.tile_width
             y == row * self.tile_height
         IN  [done |-> TRUE, none |-> FALSE,
              rect |-> <<x, y, self.tile_width, self.tile_height>>]

\* TileSet(tile_width, tile_height) followed by set_grid_size(columns, rows)
TileSets ==
    [tile_width : {16, 32}, tile_height : {16, 32},
     columns : 0 .. MaxGrid, rows : 0 .. MaxGrid]

InitTileRect ==
    /\ pfn = "get_tile_rect"
    /\ pin \in [self : TileSets, tile_id : -2 .. (MaxGrid * MaxGrid + 2)]
    /\ pout = [done |-> FALSE]
    /\ KernelIdle /\ FacadeIdle /\ BatchIdle /\ StatefulIdle

get_tile_rect_call ==
    /\ pfn = "get_tile_rect"
    /\ ~pout.done
    /\ pout' = get_tile_rect(pin.self, pin.tile_id)
    /\ UNCHANGED <<pfn, pin, kvars, fvars, bvars, svars>>

SpecTileRect == InitTileRect /\ [][get_tile_rect_call]_vars

(***************************************************************************)
(* ui/widgets/slider.py: one Slider, its property setters and its mouse    *)
(* events.  The Widget base class is not among the sources: the slider is  *)
(* a visible, enabled widget without children placed at its own (x, y),    *)
(* and contains_point is the test against its rectangle.                   *)
(***************************************************************************)
SliderGeometry ==
    [x |-> 0, y |-> 0, width |-> 20, height |-> 24, handle_size |-> 16]

\* Widget.get_absolute_position for a widget without parent
get_absolute_position(s) == <<s.x, s.y>>

\* Widget.contains_point
contains_point(s, px, py) ==
    LET abs == get_absolute_position(s)
    IN  /\ abs[1] <= px /\ px < abs[1] + s.width
        /\ abs[2] <= py /\ py < abs[2] + s.height

\* Slider.__init__
Slider_init(min_value, max_value, value, step, orientation) ==
    [alive |-> TRUE,
     x |-> SliderGeometry.x, y |-> SliderGeometry.y,
     width |-> SliderGeometry.width, height |-> SliderGeometry.height,
     handle_size |-> SliderGeometry.handle_size,
     visible |-> TRUE, enabled |-> TRUE,
     min_value |-> min_value,
     max_value |-> max_value,
     value |-> RMax(min_value, RMin(max_value, value)),
     step |-> step,
     orientation |-> orientation,
     dragging |-> FALSE, pressed |-> FALSE, hovered |-> FALSE, focused |-> FALSE]

\* value.setter: clamp to the range, then apply the step
value_setter(s, val) ==
    LET clamped == RMax(s.min_value, RMin(s.max_value, val))
        stepped == IF RLt(R(0), s.step)
                   THEN RAdd(RMul(R(py_round(RDiv(RSub(clamped, s.min_value), s.step))),
                                  s.step),
                             s.min_value)
                   ELSE clamped
    IN  [s EXCEPT !.value = stepped]

\* min_value.setter
min_value_setter(s, val) == value_setter([s EXCEPT !.min_value = val], s.value)

\* max_value.setter
max_value_setter(s, val) == value_setter([s EXCEPT !.max_value = val], s.value)

\* Slider._position_to_value
position_to_value(s, px, py) ==
    LET abs == get_absolute_position(s)
        track_start == s.handle_size \div 2
        horizontal == s.orientation = "horizontal"
        track_length == IF horizontal THEN s.width - s.handle_size
                        ELSE s.height - s.handle_size
        local == IF horizontal THEN px - abs[1] - track_start
                 ELSE py - abs[2] - track_start
        ratio == IF track_length > 0 THEN Norm(local, track_length) ELSE R(0)
        normalized == IF horizontal THEN RMax(R(0), RMin(R(1), ratio))
                      ELSE RMax(R(0), RMin(R(1), RSub(R(1), ratio)))
    IN  RAdd(s.min_value, RMul(normalized, RSub(s.max_value, s.min_value)))

\* Slider.handle_event: the slider afterwards and the value returned
handle_event(s, event) ==
    LET px == event.pos[1]
        py == event.pos[2]
    IN  IF ~s.visible \/ ~s.enabled THEN [self |-> s, ret |-> FALSE]
        ELSE IF event.type = "MOUSEBUTTONDOWN" /\ event.button = 1 THEN
            IF contains_point(s, px, py)
            THEN [self |-> [value_setter([s EXCEPT !.dragging = TRUE, !.pressed = TRUE],
                                         position_to_value(s, px, py))
                                EXCEPT !.focused = TRUE],
                  ret |-> TRUE]
            ELSE [self |-> s, ret |-> FALSE]
        ELSE IF event.type = "MOUSEBUTTONUP" /\ event.button = 1 THEN
            IF s.dragging
            THEN [self |-> [s EXCEPT !.dragging = FALSE, !.pressed = FALSE], ret |-> TRUE]
            ELSE [self |-> s, ret |-> FALSE]
        ELSE IF event.type = "MOUSEMOTION" THEN
            LET is_hovered == contains_point(s, px, py)
                h == IF is_hovered /\ ~s.hovered THEN [s EXCEPT !.hovered = TRUE]
                     ELSE IF ~is_hovered /\ s.hovered /\ ~s.dragging
                          THEN [s EXCEPT !.hovered = FALSE]
                     ELSE s
            IN  IF h.dragging
                THEN [self |-> value_setter(h, position_to_value(h, px, py)), ret |-> TRUE]
                ELSE [self |-> h, ret |-> FALSE]
        ELSE [self |-> s, ret |-> FALSE]

SliderMins == {R(0), R(1)}

SliderMaxs == {R(3), R(4)}

SliderValues == {R(-1), R(1), <<5, 2>>, R(3), R(5)}

SliderSteps == {R(0), <<1, 2>>, R(1), R(2)}

MousePositions == {<<8, 12>>, <<9, 12>>, <<10, 10>>, <<12, 16>>, <<30, 12>>}

MouseEvents ==
    [type : {"MOUSEBUTTONDOWN", "MOUSEBUTTONUP", "MOUSEMOTION"},
     button : {1, 3}, pos : MousePositions]

Slider_new ==
    \E min_value \in SliderMins, max_value \in SliderMaxs, value \in SliderValues :
    \E step \in SliderSteps, orientation \in {"horizontal", "vertical"} :
        /\ ~slider.alive
        /\ slider' = Slider_init(min_value, max_value, value, step, orientation)
        /\ sevent' = [op |-> "__init__", arg |-> value, ret |-> FALSE]
        /\ UNCHANGED <<kvars, fvars, bvars, pvars, wvars, ovars>>

assign_value ==
    \E val \in SliderValues :
        /\ slider.alive
        /\ slider' = value_setter(slider, val)
        /\ sevent' = [op |-> "value.setter", arg |-> val, ret |-> FALSE]
        /\ UNCHANGED <<kvars, fvars, bvars, pvars, wvars, ovars>>

assign_min_value ==
    \E val \in SliderMins \cup {R(5)} :
        /\ slider.alive
        /\ slider' = min_value_setter(slider, val)
        /\ sevent' = [op |-> "min_value.setter", arg |-> val, ret |-> FALSE]
        /\ UNCHANGED <<kvars, fvars, bvars, pvars, wvars, ovars>>

assign_max_value ==
    \E val \in SliderMaxs :
        /\ slider.alive
        /\ slider' = max_value_setter(slider, val)
        /\ sevent' = [op |-> "max_value.setter", arg |-> val, ret |-> FALSE]
        /\ UNCHANGED <<kvars, fvars, bvars, pvars, wvars, ovars>>

slider_handle_event ==
    \E event \in MouseEvents :
        /\ slider.alive
        /\ slider' = handle_event(slider, event).self
        /\ sevent' = [op |-> event.type, arg |-> event.pos,
                      ret |-> handle_event(slider, event).ret]
        /\ UNCHANGED <<kvars, fvars, bvars, pvars, wvars, ovars>>

InitSlider == KernelIdle /\ FacadeIdle /\ BatchIdle /\ PureIdle /\ StatefulIdle

SliderNext ==
    \/ Slider_new
    \/ assign_value
    \/ assign_min_value
    \/ assign_max_value
    \/ slider_handle_event

SpecSlider == InitSlider /\ [][SliderNext]_vars

(***************************************************************************)
(* kernels.py: _hash2d.  An integer is held as its two's-complement bytes, *)
(* least significant first; the product is formed in the width the         *)
(* compiler gives an int32 * int32 (32 bits, or the 64-bit machine word)   *)
(* and nb.int32(...) keeps its low four bytes.                             *)
(***************************************************************************)
INT32_MAX == 2147483647

INT32_MIN == -2147483647 - 1

\* the multiplier _hash2d is written with (its comment reads 0x27d4eb2d)
HASH_MUL == 665099693

\* 0x27d4eb2d, the multiplier of the reference hash
Hex27d4eb2d == 668265261

\* the n two's-complement bytes of an int32 value, sign-extended
bytes_of(v, n) ==
    [k \in 1 .. n |->
        IF k <= 4 THEN (v \div (256 ^ (k - 1))) % 256
        ELSE IF v < 0 THEN 255 ELSE 0]

\* nb.int32(value): the low four bytes read as a signed 32-bit integer
int32_cast(b) ==
    IF b[4] >= 128
    THEN INT32_MIN + ((b[4] - 128) * 16777216 + b[3] * 65536 + b[2] * 256 + b[1])
    ELSE b[4] * 16777216 + b[3] * 65536 + b[2] * 256 + b[1]

RECURSIVE xor_bits(_, _, _)
xor_bits(a, b, n) ==
    IF n = 0 THEN 0
    ELSE (((a % 2) + (b % 2)) % 2) + 2 * xor_bits(a \div 2, b \div 2, n - 1)

\* a ^ b on equally long byte strings
xor_bytes(a, b) == [k \in DOMAIN a |-> xor_bits(a[k], b[k], 8)]

\* column k of the long multiplication: the sum of a[i] * b[k + 1 - i]
RECURSIVE mul_column(_, _, _, _)
mul_column(a, b, k, i) ==
    IF i = 0 THEN 0
    ELSE a[i] * b[k + 1 - i] + mul_column(a, b, k, i - 1)

RECURSIVE mul_carry(_, _, _)
mul_carry(a, b, k) ==
    IF k = 0 THEN 0
    ELSE (mul_column(a, b, k, k) + mul_carry(a, b, k - 1)) \div 256

\* a * b in the width of the operands: the low Len(a) bytes of the product
mul_bytes(a, b) ==
    [k \in DOMAIN a |-> (mul_column(a, b, k, k) + mul_carry(a, b, k - 1)) % 256]

\* _hash2d, the int32 * int32 product formed in `width` bits
hash2d(seed, xp, yp, width) ==
    LET n == width \div 8
        h1 == int32_cast(xor_bytes(xor_bytes(bytes_of(seed, 4), bytes_of(xp, 4)),
                                   bytes_of(yp, 4)))
        product == mul_bytes(bytes_of(h1, n), bytes_of(HASH_MUL, n))
        h2 == int32_cast(product)
    IN  [done |-> TRUE, width |-> width, xor |-> h1, product |-> product, h |-> h2]

\* a + b modulo 2^32, as a signed 32-bit integer
wrap_add(a, b) ==
    IF a >= 0 /\ b >= 0 /\ a > INT32_MAX - b
        THEN (a - INT32_MAX - 1) + (b - INT32_MAX - 1)
    ELSE IF a < 0 /\ b < 0 /\ a < INT32_MIN - b
        THEN (a + INT32_MAX + 1) + (b + INT32_MAX + 1)
    ELSE a + b

\* a * m modulo 2^32 for m >= 0, as a signed 32-bit integer
RECURSIVE wrap_mul(_, _)
wrap_mul(a, m) ==
    IF m = 0 THEN 0
    ELSE wrap_add(IF m % 2 = 1 THEN a ELSE 0, wrap_mul(wrap_add(a, a), m \div 2))

\* _PRIME_X = 501125321 and _PRIME_Y = 1136930381 times small lattice
\* coordinates, and the ends of the int32 range
HashSeeds == {0, 1337, -1, INT32_MAX, INT32_MIN}

HashXp == {0, 501125321, 1002250642, -501125321, INT32_MAX, INT32_MIN}

HashYp == {0, 1136930381, -2021106534, -1136930381, INT32_MAX}

MachineWidths == {32, 64}

InitHash ==
    /\ pfn = "_hash2d"
    /\ pin \in [seed : HashSeeds, xp : HashXp, yp : HashYp]
    /\ pout = [done |-> FALSE]
    /\ KernelIdle /\ FacadeIdle /\ BatchIdle /\ StatefulIdle

hash2d_call ==
    \E width \in MachineWidths :
        /\ pfn = "_hash2d"
        /\ ~pout.done
        /\ pout' = hash2d(pin.seed, pin.xp, pin.yp, width)
        /\ UNCHANGED <<pfn, pin, kvars, fvars, bvars, svars>>

SpecHash == InitHash /\ [][hash2d_call]_vars

(***************************************************************************)
(* vgnoise/kernels.py: the table-based Perlin kernels.  The single-octave  *)
(* Perlin sample of each pass of the octave loop is an input (noises[k]);  *)
(* the loop's locals total and amp are kept after every pass.              *)
(***************************************************************************)

\* loop body of perlin_fbm_2d_weighted after the sample is computed
perlin_fbm_2d_weighted_octave(st, noise, a) ==
    LET ws == a.weighted_strength IN
    [total |-> RAdd(st.total, RMul(noise, st.amp)),
     amp |-> RMul(st.amp,
                  RMul(RAdd(RSub(R(1), ws),
                            RMul(RMul(ws, RAdd(noise, R(1))), <<1, 2>>)),
                       a.persistence)),
     noise |-> noise]

\* loop body of perlin_ridged_2d: noise = 1.0 - abs(noise_raw)
perlin_ridged_2d_octave(st, noise_raw, a) ==
    LET ws == a.weighted_strength
        noise == RSub(R(1), RAbs(noise_raw))
    IN  [total |-> RAdd(st.total, RMul(noise, st.amp)),
         amp |-> IF RLt(R(0), ws)
                 THEN RMul(st.amp, RMul(RAdd(RSub(R(1), ws), RMul(ws, noise)),
                                        a.persistence))
                 ELSE RMul(st.amp, a.persistence),
         noise |-> noise]

\* the fold written out in perlin_pingpong_2d
pingpong_inline(pp_val) ==
    LET p2 == RSub(pp_val, R(RTrunc(RMul(pp_val, <<1, 2>>)) * 2))
    IN  IF RLe(R(1), p2) THEN RSub(R(2), p2) ELSE p2

\* loop body of perlin_pingpong_2d
perlin_pingpong_2d_octave(st, noise_raw, a) ==
    LET ws == a.weighted_strength
        noise == pingpong_inline(RMul(RAdd(noise_raw, R(1)), a.ping_pong_strength))
    IN  [total |-> RAdd(st.total, RMul(RMul(RSub(noise, <<1, 2>>), R(2)), st.amp)),
         amp |-> IF RLt(R(0), ws)
                 THEN RMul(st.amp, RMul(RAdd(RSub(R(1), ws), RMul(ws, noise)),
                                        a.persistence))
                 ELSE RMul(st.amp, a.persistence),
         noise |-> noise]

vgnoise_octave(kernel, st, noise, a) ==
    CASE kernel = "perlin_fbm_2d_weighted" -> perlin_fbm_2d_weighted_octave(st, noise, a)
      [] kernel = "perlin_ridged_2d" -> perlin_ridged_2d_octave(st, noise, a)
      [] kernel = "perlin_pingpong_2d" -> perlin_pingpong_2d_octave(st, noise, a)

\* for _ in range(octaves): the locals after passes 1 .. k, starting from
\* total = 0.0, amp = 1.0
RECURSIVE vgnoise_loop(_, _, _)
vgnoise_loop(kernel, a, k) ==
    IF k = 0 THEN <<>>
    ELSE LET before == vgnoise_loop(kernel, a, k - 1)
             st == IF k = 1 THEN [total |-> R(0), amp |-> R(1), noise |-> R(0)]
                   ELSE before[k - 1]
         IN  Append(before, vgnoise_octave(kernel, st, a.noises[k], a))

\* result[i] = total * fractal_bounding * 0.5 + 0.5 ; the ridged kernel ends
\* with result[i] = total * fractal_bounding
vgnoise_result(kernel, total, fractal_bounding) ==
    IF kernel = "perlin_ridged_2d"
    THEN RMul(total, fractal_bounding)
    ELSE RAdd(RMul(RMul(total, fractal_bounding), <<1, 2>>), <<1, 2>>)

vgnoise_kernel(kernel, a) ==
    LET passes == vgnoise_loop(kernel, a, Len(a.noises))
    IN  [done |-> TRUE, passes |-> passes,
         result |-> vgnoise_result(kernel, passes[Len(passes)].total,
                                   a.fractal_bounding)]

NoiseRuns == UNION {[1 .. n -> Samples] : n \in 1 .. MaxOctaves}

VgnoiseArgs ==
    {[noises |-> ns, persistence |-> g, weighted_strength |-> ws,
      ping_pong_strength |-> pps,
      fractal_bounding |-> calc_fractal_bounding(Len(ns), g)] :
        ns \in NoiseRuns, g \in Gains, ws \in WeightedStrengths,
        pps \in PingPongStrengths}

VgnoiseKernels == {"perlin_fbm_2d_weighted", "perlin_ridged_2d", "perlin_pingpong_2d"}

InitVgnoise ==
    /\ pfn \in VgnoiseKernels
    /\ pin \in VgnoiseArgs
    /\ pout = [done |-> FALSE]
    /\ KernelIdle /\ FacadeIdle /\ BatchIdle /\ StatefulIdle

perlin_fbm_2d_weighted ==
    /\ pfn = "perlin_fbm_2d_weighted"
    /\ ~pout.done
    /\ pout' = vgnoise_kernel(pfn, pin)
    /\ UNCHANGED <<pfn, pin, kvars, fvars, bvars, svars>>

perlin_ridged_2d ==
    /\ pfn = "perlin_ridged_2d"
    /\ ~pout.done
    /\ pout' = vgnoise_kernel(pfn, pin)
    /\ UNCHANGED <<pfn, pin, kvars, fvars, bvars, svars>>

perlin_pingpong_2d ==
    /\ pfn = "perlin_pingpong_2d"
    /\ ~pout.done
    /\ pout' = vgnoise_kernel(pfn, pin)
    /\ UNCHANGED <<pfn, pin, kvars, fvars, bvars, svars>>

VgnoiseNext == perlin_fbm_2d_weighted \/ perlin_ridged_2d \/ perlin_pingpong_2d

SpecVgnoise == InitVgnoise /\ [][VgnoiseNext]_vars

(***************************************************************************)
(* The ping-pong fold on its own: _ping_pong (the same text in both kernel *)
(* files) and the copy written out in perlin_pingpong_2d, applied to       *)
(* (raw + 1.0) * ping_pong_strength.                                       *)
(***************************************************************************)
FoldRaws == {<<k, 4>> : k \in {-3, -1, 1, 3}} \cup {R(-1), <<-1, 2>>, R(0), <<1, 2>>, R(1)}

FoldStrengths == {R(-2), R(-1), <<-1, 2>>, R(0), <<1, 2>>, R(1), <<3, 2>>, R(2), R(3)}

InitFold ==
    /\ pfn \in {"_ping_pong", "pingpong_inline"}
    /\ pin \in [raw : FoldRaws, ping_pong_strength : FoldStrengths]
    /\ pout = [done |-> FALSE]
    /\ KernelIdle /\ FacadeIdle /\ BatchIdle /\ StatefulIdle

ping_pong_call ==
    /\ pfn = "_ping_pong"
    /\ ~pout.done
    /\ pout' = [done |-> TRUE,
                noise |-> ping_pong(RMul(RAdd(pin.raw, R(1)), pin.ping_pong_strength))]
    /\ UNCHANGED <<pfn, pin, kvars, fvars, bvars, svars>>

pingpong_inline_call ==
    /\ pfn = "pingpong_inline"
    /\ ~pout.done
    /\ pout' = [done |-> TRUE,
                noise |-> pingpong_inline(RMul(RAdd(pin.raw, R(1)), pin.ping_pong_strength))]
    /\ UNCHANGED <<pfn, pin, kvars, fvars, bvars, svars>>

SpecFold == InitFold /\ [][ping_pong_call \/ pingpong_inline_call]_vars

(***************************************************************************)
(* core/base/game_object.py: class GameObject.  objs[o] holds the fields   *)
(* of the object with id o; a parent of 0 is None.                         *)
(***************************************************************************)
MaxObjects == 3

\* GameObject.__init__: a fresh id, no parent, no children
GameObject_init(os, x) ==
    Append(os, [parent |-> 0, children |-> <<>>, x |-> x, destroyed |-> FALSE])

SeqContains(s, e) == \E i \in DOMAIN s : s[i] = e

\* list.remove: the first occurrence
SeqRemove(s, e) ==
    LET i == CHOOSE j \in DOMAIN s : s[j] = e /\ \A k \in 1 .. (j - 1) : s[k] # e
    IN  SubSeq(s, 1, i - 1) \o SubSeq(s, i + 1, Len(s))

\* GameObject.remove_child
remove_child(os, self, child) ==
    IF SeqContains(os[self].children, child)
    THEN LET os1 == [os EXCEPT ![child].parent = 0]
         IN  [os1 EXCEPT ![self].children = SeqRemove(@, child)]
    ELSE os

\* GameObject.add_child
add_child(os, self, child) ==
    LET os1 == IF os[child].parent # 0
               THEN remove_child(os, os[child].parent, child)
               ELSE os
        os2 == [os1 EXCEPT ![child].parent = self]
    IN  IF ~SeqContains(os2[self].children, child)
        THEN [os2 EXCEPT ![self].children = Append(@, child)]
        ELSE os2

\* GameObject.x (y reads the same way): the property calls itself on the
\* parent; depth is the number of frames still available, and a chain that
\* needs more than any chain without a cycle has ends in RecursionError
RECURSIVE world_x(_, _, _)
world_x(os, o, depth) ==
    IF os[o].parent = 0 THEN [err |-> "none", v |-> os[o].x]
    ELSE IF depth = 0 THEN [err |-> "RecursionError", v |-> 0]
    ELSE LET r == world_x(os, os[o].parent, depth - 1)
         IN  IF r.err # "none" THEN r
             ELSE [err |-> "none", v |-> r.v + os[o].x]

\* GameObject.destroy: the flag, then destroy() on a copy of _children
RECURSIVE destroy(_, _, _)
RECURSIVE destroy_children(_, _, _, _)
destroy(os, o, depth) ==
    IF depth = 0 THEN [objs |-> os, err |-> "RecursionError"]
    ELSE LET os1 == [os EXCEPT ![o].destroyed = TRUE]
         IN  destroy_children(os1, os1[o].children, 1, depth - 1)

destroy_children(os, kids, i, depth) ==
    IF i > Len(kids) THEN [objs |-> os, err |-> "none"]
    ELSE LET r == destroy(os, kids[i], depth)
         IN  IF r.err # "none" THEN r
             ELSE destroy_children(r.objs, kids, i + 1, depth)

new_object ==
    /\ Len(objs) < MaxObjects
    /\ objs' = GameObject_init(objs, Len(objs) + 1)
    /\ objop' = [op |-> "init", self |-> Len(objs) + 1, err |-> "none"]
    /\ UNCHANGED <<kvars, fvars, bvars, pvars, wvars, uvars, cvars, mvars>>

call_add_child ==
    \E self \in DOMAIN objs, child \in DOMAIN objs :
        /\ objs' = add_child(objs, self, child)
        /\ objop' = [op |-> "add_child", self |-> self, err |-> "none"]
        /\ UNCHANGED <<kvars, fvars, bvars, pvars, wvars, uvars, cvars, mvars>>

call_remove_child ==
    \E self \in DOMAIN objs, child \in DOMAIN objs :
        /\ objs' = remove_child(objs, self, child)
        /\ objop' = [op |-> "remove_child", self |-> self, err |-> "none"]
        /\ UNCHANGED <<kvars, fvars, bvars, pvars, wvars, uvars, cvars, mvars>>

read_x ==
    \E self \in DOMAIN objs :
        /\ objop' = [op |-> "x", self |-> self,
                     err |-> world_x(objs, self, Len(objs)).err]
        /\ UNCHANGED <<objs, kvars, fvars, bvars, pvars, wvars, uvars, cvars, mvars>>

call_destroy ==
    \E self \in DOMAIN objs :
        LET r == destroy(objs, self, Len(objs) + 1)
        IN  /\ objs' = r.objs
            /\ objop' = [op |-> "destroy", self |-> self, err |-> r.err]
            /\ UNCHANGED <<kvars, fvars, bvars, pvars, wvars, uvars, cvars, mvars>>

InitObjects == KernelIdle /\ FacadeIdle /\ BatchIdle /\ PureIdle /\ StatefulIdle

ObjectsNext ==
    new_object \/ call_add_child \/ call_remove_child \/ read_x \/ call_destroy

SpecObjects == InitObjects /\ [][ObjectsNext]_vars

(***************************************************************************)
(* core/character/base.py: class BaseCharacter.  Amounts are whole numbers *)
(* of health points; calls counts the calls made, up to MaxCalls.          *)
(***************************************************************************)
MaxCalls == 3

Amounts == {-120, -60, -25, 0, 25, 60, 120}

Max2(a, b) == IF a >= b THEN a ELSE b

Min2(a, b) == IF a <= b THEN a ELSE b

\* BaseCharacter.__init__
BaseCharacter_init ==
    [alive |-> TRUE, health |-> 100, max_health |-> 100, destroyed |-> FALSE, calls |-> 0]

\* on_death: self.destroy()
on_death(c) == [c EXCEPT !.destroyed = TRUE]

\* BaseCharacter.take_damage
take_damage(c, amount) ==
    LET c1 == [c EXCEPT !.health = Max2(0, c.health - amount)]
    IN  IF c1.health <= 0 THEN on_death(c1) ELSE c1

\* BaseCharacter.heal
heal(c, amount) ==
    [c EXCEPT !.health = Min2(c.max_health, c.health + amount)]

new_character ==
    /\ ~chr.alive
    /\ chr' = BaseCharacter_init
    /\ chrop' = [op |-> "init"]
    /\ UNCHANGED <<kvars, fvars, bvars, pvars, wvars, uvars, gvars, mvars>>

call_take_damage ==
    \E amount \in Amounts :
        /\ chr.alive /\ chr.calls < MaxCalls
        /\ chr' = [take_damage(chr, amount) EXCEPT !.calls = @ + 1]
        /\ chrop' = [op |-> "take_damage", amount |-> amount, before |-> chr.health]
        /\ UNCHANGED <<kvars, fvars, bvars, pvars, wvars, uvars, gvars, mvars>>

call_heal ==
    \E amount \in Amounts :
        /\ chr.alive /\ chr.calls < MaxCalls
        /\ chr' = [heal(chr, amount) EXCEPT !.calls = @ + 1]
        /\ chrop' = [op |-> "heal", amount |-> amount, before |-> chr.health]
        /\ UNCHANGED <<kvars, fvars, bvars, pvars, wvars, uvars, gvars, mvars>>

InitCharacter == KernelIdle /\ FacadeIdle /\ BatchIdle /\ PureIdle /\ StatefulIdle

SpecCharacter ==
    InitCharacter /\ [][new_character \/ call_take_damage \/ call_heal]_vars

(***************************************************************************)
(* ui/manager.py: class UIManager.  The widgets are a fixed tree: widget 1 *)
(* is a container whose child is widget 2, widget 3 stands alone and is    *)
(* disabled; all are visible.  A widget reference of 0 is None.  Whether a *)
(* widget consumes an event is the widget's business and an input here.    *)
(***************************************************************************)
Widgets == {1, 2, 3}

WidgetParent == <<0, 1, 0>>

WidgetEnabled == <<TRUE, TRUE, FALSE>>

\* screen points and the widgets whose rectangle holds them
ScreenPoints == {"a", "b", "c", "e", "z"}

WidgetsHolding(p) ==
    CASE p = "a" -> {1}
      [] p = "b" -> {1, 2}
      [] p = "c" -> {3}
      [] p = "e" -> {1, 3}
      [] p = "z" -> {}

\* Widget.get_child_at: the child under the point, None without one
get_child_at(w, p) ==
    IF \E c \in Widgets : WidgetParent[c] = w /\ c \in WidgetsHolding(p)
    THEN CHOOSE c \in Widgets : WidgetParent[c] = w /\ c \in WidgetsHolding(p)
    ELSE 0

UIManager_init ==
    [alive |-> TRUE, widgets |-> <<>>, focused |-> 0, hovered |-> 0,
     state_hovered |-> {}, state_focused |-> {}]

UIManager_add(m, widget) ==
    IF ~SeqContains(m.widgets, widget)
    THEN [m EXCEPT !.widgets = Append(@, widget)]
    ELSE m

UIManager_remove(m, widget) ==
    IF SeqContains(m.widgets, widget)
    THEN [m EXCEPT !.widgets = SeqRemove(@, widget),
                   !.focused = IF @ = widget THEN 0 ELSE @,
                   !.hovered = IF @ = widget THEN 0 ELSE @]
    ELSE m

UIManager_clear(m) ==
    [m EXCEPT !.widgets = <<>>, !.focused = 0, !.hovered = 0]

\* get_widget_at: reversed(self._widgets), the first visible one holding the
\* point, its child at the point if it has one
RECURSIVE UIManager_get_widget_at(_, _, _)
UIManager_get_widget_at(m, p, i) ==
    IF i = 0 THEN 0
    ELSE IF m.widgets[i] \in WidgetsHolding(p)
        THEN IF get_child_at(m.widgets[i], p) # 0
             THEN get_child_at(m.widgets[i], p)
             ELSE m.widgets[i]
    ELSE UIManager_get_widget_at(m, p, i - 1)

update_hover(m, p) ==
    LET widget == UIManager_get_widget_at(m, p, Len(m.widgets))
        left == IF m.hovered # 0 THEN m.state_hovered \ {m.hovered}
                ELSE m.state_hovered
    IN  IF widget # m.hovered
        THEN [m EXCEPT !.state_hovered = IF widget # 0 THEN left \cup {widget} ELSE left,
                       !.hovered = widget]
        ELSE m

update_focus(m, p) ==
    LET widget == UIManager_get_widget_at(m, p, Len(m.widgets))
        blurred == IF m.focused # 0 THEN m.state_focused \ {m.focused}
                   ELSE m.state_focused
    IN  IF widget # m.focused
        THEN IF widget # 0 /\ WidgetEnabled[widget]
             THEN [m EXCEPT !.state_focused = blurred \cup {widget},
                            !.focused = widget]
             ELSE [m EXCEPT !.state_focused = blurred, !.focused = 0]
        ELSE m

\* handle_event; overlay and consumed say whether some widget's
\* handle_overlay_event / handle_event returned True
UIManager_handle_event(m, event, overlay, consumed) ==
    IF overlay
    THEN IF event.type = "MOUSEBUTTONDOWN" THEN update_focus(m, event.pos) ELSE m
    ELSE LET m1 == IF event.type = "MOUSEMOTION" THEN update_hover(m, event.pos)
                   ELSE m
         IN  IF consumed
             THEN IF event.type = "MOUSEBUTTONDOWN" THEN update_focus(m1, event.pos)
                  ELSE m1
             ELSE IF event.type = "MOUSEBUTTONDOWN" /\ event.button = 1
                     /\ m1.focused # 0
                  THEN [m1 EXCEPT !.state_focused = @ \ {m1.focused}, !.focused = 0]
                  ELSE m1

UIEvents ==
    [type : {"MOUSEMOTION", "MOUSEBUTTONDOWN", "KEYDOWN"}, pos : ScreenPoints,
     button : {1, 3}]

new_manager ==
    /\ ~ui.alive
    /\ ui' = UIManager_init
    /\ uiop' = [op |-> "init"]
    /\ UNCHANGED <<kvars, fvars, bvars, pvars, wvars, uvars, gvars, cvars>>

call_add ==
    \E w \in Widgets :
        /\ ui.alive
        /\ ui' = UIManager_add(ui, w)
        /\ uiop' = [op |-> "add", widget |-> w]
        /\ UNCHANGED <<kvars, fvars, bvars, pvars, wvars, uvars, gvars, cvars>>

call_remove ==
    \E w \in Widgets :
        /\ ui.alive
        /\ ui' = UIManager_remove(ui, w)
        /\ uiop' = [op |-> "remove", widget |-> w]
        /\ UNCHANGED <<kvars, fvars, bvars, pvars, wvars, uvars, gvars, cvars>>

call_clear ==
    /\ ui.alive
    /\ ui' = UIManager_clear(ui)
    /\ uiop' = [op |-> "clear"]
    /\ UNCHANGED <<kvars, fvars, bvars, pvars, wvars, uvars, gvars, cvars>>

call_handle_event ==
    \E event \in UIEvents, overlay \in BOOLEAN, consumed \in BOOLEAN :
        /\ ui.alive
        /\ (overlay \/ consumed) => ui.widgets # <<>>
        /\ ui' = UIManager_handle_event(ui, event, overlay, consumed)
        /\ uiop' = [op |-> "handle_event", type |-> event.type,
                    out |-> overlay \/ consumed]
        /\ UNCHANGED <<kvars, fvars, bvars, pvars, wvars, uvars, gvars, cvars>>

InitManager == KernelIdle /\ FacadeIdle /\ BatchIdle /\ PureIdle /\ StatefulIdle

ManagerNext ==
    new_manager \/ call_add \/ call_remove \/ call_clear \/ call_handle_event

SpecManager == InitManager /\ [][ManagerNext]_vars

(***************************************************************************)
(* kernels.py: the table indices _grad_coord, _grad_coord_out,             *)
(* _grad_coord_dual and _single_cellular compute from the hash h.  h is    *)
(* the int32 _hash2d returned; int(h) widens it, >> is the arithmetic      *)
(* shift and & , | work on two's complement bits.                          *)
(***************************************************************************)
\* len(_GRADIENTS_2D)
GRADIENTS_2D_LEN == 256

\* len(_RAND_VECS_2D)
RAND_VECS_2D_LEN == 512

RECURSIVE and_bits(_, _, _)
and_bits(a, b, n) ==
    IF n = 0 THEN 0
    ELSE ((a % 2) * (b % 2)) + 2 * and_bits(a \div 2, b \div 2, n - 1)

RECURSIVE or_bits(_, _, _)
or_bits(a, b, n) ==
    IF n = 0 THEN 0
    ELSE ((a % 2) + (b % 2) - (a % 2) * (b % 2)) + 2 * or_bits(a \div 2, b \div 2, n - 1)

\* a & mask and a | 1 for a non-negative mask below 2^31
bit_and(a, mask) == and_bits(a, mask, 31)

or_one(idx) == or_bits(idx, 1, 31)

\* h >> n on a signed integer
shift_right(h, n) == h \div (2 ^ n)

\* nb.int32(a ^ b)
xor_int32(a, b) == int32_cast(xor_bytes(bytes_of(a, 4), bytes_of(b, 4)))

\* _grad_coord with 510 in the place of 254
grad_coord_wide(h) ==
    LET h2 == xor_int32(h, shift_right(h, 15))
        hi == bit_and(h2, 510)
    IN  [done |-> TRUE, gradients |-> <<hi, or_one(hi)>>, rand_vecs |-> <<>>]

\* _grad_coord: the subscripts of _GRADIENTS_2D it reads
grad_coord(h) ==
    LET h2 == xor_int32(h, shift_right(h, 15))
        hi == bit_and(h2, 254)
    IN  [done |-> TRUE, gradients |-> <<hi, or_one(hi)>>, rand_vecs |-> <<>>]

\* _grad_coord_out: the subscripts of _RAND_VECS_2D it reads
grad_coord_out(h) ==
    LET hi == bit_and(h, 510)
    IN  [done |-> TRUE, gradients |-> <<>>, rand_vecs |-> <<hi, or_one(hi)>>]

\* _grad_coord_dual
grad_coord_dual(h) ==
    LET idx1 == bit_and(h, 254)
        idx2 == bit_and(shift_right(h, 7), 510)
    IN  [done |-> TRUE, gradients |-> <<idx1, or_one(idx1)>>,
         rand_vecs |-> <<idx2, or_one(idx2)>>]

\* _single_cellular: the lookup of one cell
cellular_lookup(h) ==
    LET idx == bit_and(h, 510)
    IN  [done |-> TRUE, gradients |-> <<>>, rand_vecs |-> <<idx, or_one(idx)>>]

\* the corner values and eighty values spread over the int32 range
HashValues ==
    {INT32_MIN, INT32_MAX, -1, -2, 254, 255, 510, 511, -32768, 32767}
        \cup {INT32_MIN + k * 53687091 : k \in 0 .. 39}
        \cup {k * 53687091 : k \in 0 .. 39}

InitLookup ==
    /\ pfn \in {"_grad_coord", "_grad_coord_out", "_grad_coord_dual", "_single_cellular"}
    /\ pin \in [h : HashValues]
    /\ pout = [done |-> FALSE]
    /\ KernelIdle /\ FacadeIdle /\ BatchIdle /\ StatefulIdle

grad_coord_call ==
    /\ pfn = "_grad_coord"
    /\ ~pout.done
    /\ pout' = grad_coord(pin.h)
    /\ UNCHANGED <<pfn, pin, kvars, fvars, bvars, svars>>

grad_coord_out_call ==
    /\ pfn = "_grad_coord_out"
    /\ ~pout.done
    /\ pout' = grad_coord_out(pin.h)
    /\ UNCHANGED <<pfn, pin, kvars, fvars, bvars, svars>>

grad_coord_dual_call ==
    /\ pfn = "_grad_coord_dual"
    /\ ~pout.done
    /\ pout' = grad_coord_dual(pin.h)
    /\ UNCHANGED <<pfn, pin, kvars, fvars, bvars, svars>>

cellular_lookup_call ==
    /\ pfn = "_single_cellular"
    /\ ~pout.done
    /\ pout' = cellular_lookup(pin.h)
    /\ UNCHANGED <<pfn, pin, kvars, fvars, bvars, svars>>

LookupNext ==
    grad_coord_call \/ grad_coord_out_call \/ grad_coord_dual_call \/ cellular_lookup_call

SpecLookup == InitLookup /\ [][LookupNext]_vars

(***************************************************************************)
(* domain_warp.py: the subscripts _simplex_warp_single and                 *)
(* _basic_grid_warp_single apply to the permutation table of a             *)
(* DomainWarp2D, from the lattice coordinates the floor of the point gave. *)
(***************************************************************************)
\* i = int(np.floor(x + s)), floor_x = int(np.floor(x)): the lattice
\* coordinates tried, on both sides of 0 and of the multiples of 256
Lattice == {-70000, -257, -1, 0, 256}

\* _simplex_warp_single: ii, jj and the subscripts of gi0, gi1, gi2
simplex_warp_subscripts(perm, i, j, i1, j1) ==
    LET ii == bit_and(i, 255)
        jj == bit_and(j, 255)
    IN  [inner |-> <<jj, jj + j1, jj + 1>>,
         outer |-> <<ii + perm[jj], ii + i1 + perm[jj + j1], ii + 1 + perm[jj + 1]>>]

\* _basic_grid_warp_single: ix, iy, ix1, iy1 and the subscripts of h00 .. h11
basic_grid_warp_subscripts(perm, floor_x, floor_y) ==
    LET ix == bit_and(floor_x, 255)
        iy == bit_and(floor_y, 255)
        ix1 == bit_and(ix + 1, 255)
        iy1 == bit_and(iy + 1, 255)
    IN  [inner |-> <<iy, iy, iy1, iy1>>,
         outer |-> <<ix + perm[iy], ix1 + perm[iy], ix + perm[iy1], ix1 + perm[iy1]>>]

\* DomainWarp2D(seed=seed), the other arguments at their defaults
DomainWarp2D_seeded ==
    \E seed \in WarpSeeds : \E rng \in default_rng(seed) :
        /\ ~dw.alive
        /\ dw' = [alive |-> TRUE, n |-> 0,
                  obj |-> DomainWarp2D_init(FALSE, 0, R(30), <<1, 20>>, 0, 5, R(2),
                                            <<1, 2>>, seed, rng)]
        /\ dwop' = [op |-> "__init__", before |-> <<>>,
                    result |-> init_permutation_table(rng)]
        /\ UNCHANGED <<kvars, fvars, bvars, pvars, uvars, ovars>>

simplex_warp_single_call ==
    \E i \in Lattice, j \in Lattice : \E c \in {<<1, 0>>, <<0, 1>>} :
        /\ dw.alive
        /\ dwop' = [op |-> "_simplex_warp_single", i |-> i, j |-> j,
                    result |-> simplex_warp_subscripts(dw.obj.permutation, i, j,
                                                       c[1], c[2])]
        /\ UNCHANGED <<dw, kvars, fvars, bvars, pvars, uvars, ovars>>

basic_grid_warp_single_call ==
    \E floor_x \in Lattice, floor_y \in Lattice :
        /\ dw.alive
        /\ dwop' = [op |-> "_basic_grid_warp_single", i |-> floor_x, j |-> floor_y,
                    result |-> basic_grid_warp_subscripts(dw.obj.permutation,
                                                          floor_x, floor_y)]
        /\ UNCHANGED <<dw, kvars, fvars, bvars, pvars, uvars, ovars>>

InitSubscripts == KernelIdle /\ FacadeIdle /\ BatchIdle /\ PureIdle /\ StatefulIdle

SubscriptsNext ==
    \/ DomainWarp2D_seeded
    \/ assign_seed
    \/ simplex_warp_single_call
    \/ basic_grid_warp_single_call

SpecSubscripts == InitSubscripts /\ [][SubscriptsNext]_vars

(***************************************************************************)
(* C1: for fractal modes FBM, PingPong and None every per-element result   *)
(* of the batch kernel lies in [0, 1].                                     *)
(***************************************************************************)
C1_UnitRange ==
    (kpc = "done" /\ kargs.fractal_type \in {0, 1, 3})
        => (RLe(R(0), kout) /\ RLe(kout, R(1)))

(***************************************************************************)
(* C2: for a fixed seed and configuration the result is a function of the  *)
(* configuration and the coordinates only: two evaluators built from equal *)
(* parameter records return the same value at every point (the warp        *)
(* permutation table included), and the value a call returned is the one   *)
(* the evaluator's present configuration determines, whatever was called   *)
(* before.                                                                 *)
(***************************************************************************)
ValidPositions == {p \in Positions : Len(p) = 2}

ValidRegions == {r \in Regions : generate_region_err(r) = "none"}

C2_Deterministic ==
    /\ \A i \in DOMAIN gens, j \in DOMAIN gens :
        (origin[i].via \in {"init", "from_dict"} /\ origin[j] = origin[i]) =>
            /\ \A p \in ValidPositions :
                get_value_at(gens[i], PointOf(p)) = get_value_at(gens[j], PointOf(p))
            /\ \A pts \in Arrays :
                get_values_vectorized(gens[i], pts) = get_values_vectorized(gens[j], pts)
            /\ \A r \in ValidRegions :
                generate_region(gens[i], r) = generate_region(gens[j], r)
    /\ (last.op = "get_value_at" /\ last.err = "none") =>
            last.out = get_value_at(gens[last.inst], PointOf(last.arg))

C2_Witness ==
    /\ DOMAIN gens = {1, 2}
    /\ origin[1] = origin[2] /\ origin[1].via = "init"
    /\ gens[1].domain_warp.enabled
    /\ last.op = "get_value_at" /\ last.inst = 2 /\ last.err = "none"

C4_HeightByWidth ==
    (last.op = "generate_region" /\ last.err = "none") =>
        LET width == last.arg[1][3]
            height == last.arg[2][3]
            xs == linspace(last.arg[1][1], last.arg[1][2], width)
            ys == linspace(last.arg[2][1], last.arg[2][2], height)
        IN  /\ last.out.shape = <<height, width>>
            /\ \A r \in 0 .. (height - 1), c \in 0 .. (width - 1) :
                ArrayAt(last.out, r, c)
                    = get_value_at(gens[last.inst], Point(xs[c + 1], ys[r + 1]))

(***************************************************************************)
(* C5: a record whose enum field holds an integer outside the enum's range *)
(* is refused at construction.                                             *)
(***************************************************************************)
WarpEnumKeys ==
    [domain_warp_type |-> DomainWarpType,
     domain_warp_fractal_type |-> DomainWarpFractalType]

\* the enum fields of rec that hold an integer no member has
OutOfRange(rec) ==
    {k \in DOMAIN rec \cap DOMAIN EnumKeys :
        rec[k].tag = "int" /\ rec[k].i \notin 0 .. (Len(EnumKeys[k]) - 1)}
    \cup {k \in DOMAIN rec \cap DOMAIN WarpEnumKeys :
        rec[k] \notin 0 .. (Len(WarpEnumKeys[k]) - 1)}

C7_DisabledWarpIsIdentity ==
    /\ \A i \in DOMAIN gens :
        ~gens[i].domain_warp.enabled =>
            /\ \A pts \in Arrays :
                /\ warp_coordinates(gens[i].domain_warp, pts) = pts
                /\ \A k \in DOMAIN pts :
                    get_values_vectorized(gens[i], pts)[k].at = pts[k]
            /\ \A p \in ValidPositions :
                /\ warp_single(gens[i].domain_warp, PointOf(p)) = PointOf(p)
                /\ get_value_at(gens[i], PointOf(p)).at = PointOf(p)
    /\ (last.op \in {"warp_coordinates", "warp_single"}
            /\ ~gens[last.inst].domain_warp.enabled) =>
        last.out = (IF last.op = "warp_single" THEN PointOf(last.arg) ELSE last.arg)

C7_Witness ==
    /\ last.op = "warp_single"
    /\ ~gens[last.inst].domain_warp.enabled
    /\ gens[last.inst].domain_warp.warp_type = 2
    /\ gens[last.inst].domain_warp.fractal_type = 2
    /\ last.out = PointOf(last.arg)

(***************************************************************************)
(* C8: the octave count an evaluator evaluates with is within [1, 9], for  *)
(* the main fractal combinator and for the warp's fractal loop; a count    *)
(* outside the range in the record is replaced by the nearest bound.       *)
(***************************************************************************)
Nearest(n) == IF n < 1 THEN 1 ELSE IF n > 9 THEN 9 ELSE n

C9_SameAsSequential ==
    bcall.pc # "idle" =>
        LET seq == sequential(bcall, bcall.start, 1)
            outs == {bcall.out_x, bcall.out_y} \ {0}
        IN  /\ \A o \in outs, k \in 1 .. bcall.n :
                /\ heap[o][k] \in {bcall.start[o][k], seq[o][k]}
                /\ (k \in bcall.pending
                        \/ \E w \in Workers : frames[w].pc = "loop" /\ frames[w].i = k)
                    => heap[o][k] = bcall.start[o][k]
            /\ bcall.pc = "returned" => \A o \in outs : heap[o] = seq[o]

C9_Witness ==
    /\ bcall.pc = "returned"
    /\ bcall.fn \in ProgressiveKernels
    /\ bcall.n >= 2 /\ bcall.args.octaves >= 2
    /\ bcall.by[1] # bcall.by[2]
    /\ heap[bcall.out_x][2].kind = "warp_x"

(***************************************************************************)
(* C10: a batch evaluation stores only into output arrays created by the   *)
(* call, of the inputs' length; the arrays that existed when it was        *)
(* entered, the input coordinates among them, and the fields of the object *)
(* the scalars came from (its seed included) stay as they were.            *)
(***************************************************************************)
C10_FreshOutputOnly ==
    bcall.pc # "idle" =>
        LET outs == {bcall.out_x, bcall.out_y} \ {0}
        IN  /\ \A id \in 1 .. Len(bcall.entry) : heap[id] = bcall.entry[id]
            /\ \A o \in outs :
                /\ o \notin 1 .. Len(bcall.entry)
                /\ Len(heap[o]) = Len(heap[bcall.x])
            /\ (bcall.out_y # 0 => bcall.out_x # bcall.out_y)
            /\ stored = bcall.caller
            /\ BatchArgs(stored) = bcall.args

C10_Witness ==
    /\ bcall.pc = "returned"
    /\ bcall.fn = "noise2d_batch"
    /\ bcall.n >= 2 /\ bcall.args.fractal_type = 1 /\ bcall.args.octaves >= 2
    /\ stored.o.seed = 2147483647
    /\ heap[bcall.out_x][1].octs[2].table = (-2147483647) - 1

(***************************************************************************)
(* C11: the cellular sampler takes the square root of the nearest-cell     *)
(* distance exactly when the distance function is Euclidean and the return *)
(* type is not CellValue, and of the second-nearest distance exactly when, *)
(* in addition, the return type is one that uses it (Distance2 and up);    *)
(* with EuclideanSquared (and Manhattan, Hybrid) no root is taken.         *)
(***************************************************************************)
C11_SqrtOnlyEuclideanDistance ==
    (pfn = "_single_cellular" /\ pout.done) =>
        LET root0 == pin.dist_func = 0 /\ pin.return_type # 0
            root1 == pin.dist_func = 0 /\ pin.return_type \in 2 .. 6
        IN  /\ pout.distance0 = (IF root0 THEN np_sqrt(pout.loop.distance0)
                                 ELSE pout.loop.distance0)
            /\ pout.distance1 = (IF root1 THEN np_sqrt(pout.loop.distance1)
                                 ELSE pout.loop.distance1)
            /\ pin.return_type = 1 => pout.out.v = RSub(pout.distance0, R(1))
            /\ pin.return_type = 0 => pout.out.h = pout.loop.closest_hash

C11_Witness ==
    /\ pfn = "_single_cellular" /\ pout.done
    /\ pin.dist_func = 0 /\ pin.return_type = 1
    /\ pout.loop.distance0 = <<1, 4>> /\ pout.distance0 = <<1, 2>>
    /\ pout.loop.distance1 = <<9, 4>> /\ pout.distance1 = <<9, 4>>

(***************************************************************************)
(* C12: the integer codes follow the reference ordering, and for every     *)
(* code in range the kernel dispatch selects, and the facade constructs,   *)
(* the sampler or combinator of that same name.                            *)
(***************************************************************************)
C12_CodeSelectsSameName ==
    (pfn = "select" /\ pout.done) =>
        /\ Implements[pout.member.noise] = ReferenceNoise[pin.noise_type + 1]
        /\ Implements[pout.member.fractal] = ReferenceFractal[pin.fractal_type + 1]
        /\ Implements[pout.member.warp] = ReferenceWarp[pin.warp_type + 1]
        /\ Implements[pout.member.warp_fractal]
             = ReferenceWarpFractal[pin.warp_fractal + 1]
        /\ Implements[pout.kernel.noise] = ReferenceNoise[pin.noise_type + 1]
        /\ Implements[pout.kernel.fractal] = ReferenceFractal[pin.fractal_type + 1]
        /\ Implements[pout.kernel.warp] = ReferenceWarp[pin.warp_type + 1]
        /\ Implements[pout.kernel.warp_fractal]
             = ReferenceWarpFractal[pin.warp_fractal + 1]
        /\ pout.facade.err = "none"
        /\ Implements[pout.facade.cls] = ReferenceNoise[pin.noise_type + 1]

(***************************************************************************)
(* C13: the permutation table of a DomainWarp2D is built at construction   *)
(* and no later operation on the instance (property assignment,            *)
(* warp_coordinates, warp_single, to_dict) changes its contents.           *)
(***************************************************************************)
C13_TableNeverChanges ==
    (dw.alive /\ dwop.op # "__init__") => dw.obj.permutation = dwop.before

(***************************************************************************)
(* C13, as the code has it: the table is built at construction and only an *)
(* assignment to the seed property rebuilds it; assignments to the other   *)
(* attributes, warp_coordinates, warp_single and to_dict leave it as it    *)
(* was.                                                                    *)
(***************************************************************************)
C13_OnlySeedRebuilds ==
    /\ (dw.alive /\ dwop.op = "__init__") => dw.obj.permutation = dwop.result
    /\ (dw.alive /\ dwop.op \notin {"__init__", "seed.setter"})
            => dw.obj.permutation = dwop.before
    /\ (dw.alive /\ dwop.op = "seed.setter" /\ dwop.result = "none")
            => \E rng \in default_rng(dw.obj.seed) :
                    dw.obj.permutation = init_permutation_table(rng)

C13_Witness ==
    /\ dw.alive /\ dw.n = 2 /\ dw.obj.enabled
    /\ dwop.op = "warp_coordinates"
    /\ Len(dwop.result) = 2 /\ dwop.result[1].warp # <<>>
    /\ dwop.result[1].warp[1].perm = dwop.before
    /\ dw.obj.seed = Some(2)
    /\ dw.obj.permutation = init_permutation_table([s |-> 2, draws |-> 0])

(***************************************************************************)
(* C14: get_tile_rect returns None for every tile_id that is not a tile of *)
(* the tileset (negative, at or beyond columns * rows, or an empty grid)   *)
(* and returns a rectangle, lying inside the columns x rows grid, only for *)
(* the other ids.                                                          *)
(***************************************************************************)
C14_NoneOutsideGrid ==
    (pfn = "get_tile_rect" /\ pout.done) =>
        LET self == pin.self
            inside == pin.tile_id >= 0 /\ pin.tile_id < self.columns * self.rows
        IN  /\ pout.none <=> ~inside
            /\ ~pout.none =>
                /\ pout.rect[1] + pout.rect[3] <= self.columns * self.tile_width
                /\ pout.rect[2] + pout.rect[4] <= self.rows * self.tile_height

(***************************************************************************)
(* C15: whenever min_value <= max_value the slider's value lies in         *)
(* [min_value, max_value], after construction and after any assignments    *)
(* to value, min_value and max_value and any mouse press, drag and         *)
(* release, for every step.                                                *)
(***************************************************************************)
C15_ValueWithinRange ==
    (slider.alive /\ RLe(slider.min_value, slider.max_value)) =>
        /\ RLe(slider.min_value, slider.value)
        /\ RLe(slider.value, slider.max_value)

(***************************************************************************)
(* C16: for signed 32-bit seed, xp and yp, _hash2d returns                 *)
(* ((seed XOR xp XOR yp) * 0x27d4eb2d) modulo 2^32 read as a signed 32-bit *)
(* integer, and each value it assigns to h is a signed 32-bit integer.     *)
(***************************************************************************)
C16_HashWrapsInt32 ==
    (pfn = "_hash2d" /\ pout.done) =>
        LET x == int32_cast(xor_bytes(bytes_of(pin.seed, 4),
                        xor_bytes(bytes_of(pin.xp, 4), bytes_of(pin.yp, 4))))
        IN  /\ pout.xor = x
            /\ pout.h = wrap_mul(x, Hex27d4eb2d)
            /\ pout.xor \in INT32_MIN .. INT32_MAX
            /\ pout.h \in INT32_MIN .. INT32_MAX

(***************************************************************************)
(* C17: in the FBM, Ridged and PingPong loops octave k (from 0) is sampled *)
(* with seed0 + k wrapped to a signed 32-bit integer: the seed goes up by  *)
(* exactly one from each octave to the next.                               *)
(***************************************************************************)
C17_OctaveSeedIsSeedPlusK ==
    (kpc \in {"octave", "done"} /\ kargs.fractal_type \in 1 .. 3) =>
        /\ kseed = wrap_add(kargs.seed, koct)
        /\ koct >= 1 => kused = wrap_add(kargs.seed, koct - 1)
        /\ kseed \in INT32_MIN .. INT32_MAX

C17_Witness ==
    /\ kpc = "done" /\ kargs.fractal_type = 2 /\ koct = 2
    /\ kargs.seed = 2147483647
    /\ kused = INT32_MIN
    /\ kseed = INT32_MIN + 1

\* the batch call in progress is a warp kernel, and the seed its warp has
WarpCallReturned == bcall.pc = "returned" /\ stored.kind # "generator"

WarpSeed == IF stored.kind = "DomainWarp2D" THEN stored.o.seed.v ELSE stored.o.seed

(***************************************************************************)
(* C18: in the Progressive and Independent modes octave k (from 0) of the  *)
(* warp is evaluated with the warp seed plus k, in every implementation of *)
(* the warp stage.                                                         *)
(***************************************************************************)
C18_WarpOctaveSeedPlusK ==
    (WarpCallReturned /\ stored.o.fractal_type \in {1, 2}) =>
        \A i \in 1 .. bcall.n :
            LET octs == heap[bcall.out_x][i].octs
            IN  \A k \in DOMAIN octs :
                    octs[k].call.seed = Some(wrap_add(WarpSeed, k - 1))

(***************************************************************************)
(* C19: in Progressive warp octave k is evaluated at the running           *)
(* coordinate, already displaced by the octaves before it, and its delta   *)
(* is turned by cos = 0.6, sin = 0.8 before it is added.                   *)
(***************************************************************************)
C19_ProgressiveDeltaRotated ==
    (WarpCallReturned /\ stored.o.fractal_type = 1) =>
        \A i \in 1 .. bcall.n :
            LET octs == heap[bcall.out_x][i].octs
            IN  \A k \in DOMAIN octs :
                    /\ octs[k].at = <<>>
                    /\ octs[k].call.rot = <<<<3, 5>>, <<4, 5>>>>

(***************************************************************************)
(* C20: warp type OpenSimplex2Reduced is evaluated by a kernel of its own  *)
(* that reads only the random-vector table, so it is not the function      *)
(* OpenSimplex2 is.                                                        *)
(***************************************************************************)
C20_ReducedReadsRandVecsOnly ==
    (WarpCallReturned /\ stored.o.warp_type = 1) =>
        LET twin == [stored EXCEPT !.o.warp_type = 0]
        IN  /\ <<BatchFn(stored), BatchArgs(stored)>> # <<BatchFn(twin), BatchArgs(twin)>>
            /\ \A i \in 1 .. bcall.n :
                LET octs == heap[bcall.out_x][i].octs
                IN  \A k \in DOMAIN octs :
                        /\ octs[k].call.outgrad_only
                        /\ octs[k].call.reads = {"_RAND_VECS_2D"}

(***************************************************************************)
(* C21: the forward skew t = (x + y) * F2; x += t; y += t is applied to an *)
(* element exactly when the noise type is OpenSimplex2 (0) or              *)
(* OpenSimplex2S (1), on the coordinates already multiplied by frequency   *)
(* and before the fractal combinator runs; never for the other types.      *)
(***************************************************************************)
C21_SkewOnlyForSimplex ==
    (kpc \in {"single", "octave"} /\ koct = 0) =>
        LET xs == RMul(kargs.x, kargs.frequency)
            ys == RMul(kargs.y, kargs.frequency)
            t == RMul(RAdd(xs, ys), F2)
        IN  IF kargs.noise_type \in {0, 1}
            THEN kx = RAdd(xs, t) /\ ky = RAdd(ys, t)
            ELSE kx = xs /\ ky = ys

C21_Witness ==
    /\ kpc = "octave" /\ koct = 0
    /\ kargs.noise_type = 1 /\ kargs.frequency = <<1, 2>>
    /\ kargs.x = R(3) /\ kargs.y = R(-5)
    /\ kx = <<567, 500>> /\ ky = <<-1433, 500>>

(***************************************************************************)
(* C22: after each octave the amplitude is the previous amplitude times    *)
(* gain * lerp(1, w, weighted_strength), with w = min(noise + 1, 2) / 2    *)
(* for FBM, w = 1 - |noise| for Ridged and w = the ping-ponged value for   *)
(* PingPong.  Stated on the octave loops of vgnoise/kernels.py; in a pass  *)
(* record, noise is 1 - |noise_raw| for Ridged and the folded value for    *)
(* PingPong.                                                               *)
(***************************************************************************)
AmplitudeBefore(k) == IF k = 1 THEN R(1) ELSE pout.passes[k - 1].amp

BlendTarget(k) ==
    IF pfn = "perlin_fbm_2d_weighted"
    THEN RMul(RMin(RAdd(pin.noises[k], R(1)), R(2)), <<1, 2>>)
    ELSE pout.passes[k].noise

C22_AmplitudeTimesGainLerp ==
    (pfn \in VgnoiseKernels /\ pout.done) =>
        \A k \in 1 .. Len(pout.passes) :
            pout.passes[k].amp =
                RMul(AmplitudeBefore(k),
                     RMul(pin.persistence,
                          lerp(R(1), BlendTarget(k), pin.weighted_strength)))

(***************************************************************************)
(* C23: in Ridged mode each octave adds (1 - 2*|noise|) * amplitude to the *)
(* total, and the result is that total times fractal_bounding with no      *)
(* * 0.5 + 0.5 remap.  Stated on perlin_ridged_2d of vgnoise/kernels.py.   *)
(***************************************************************************)
TotalBefore(k) == IF k = 1 THEN R(0) ELSE pout.passes[k - 1].total

C23_RidgedContribution ==
    (pfn = "perlin_ridged_2d" /\ pout.done) =>
        /\ \A k \in 1 .. Len(pout.passes) :
              pout.passes[k].total =
                  RAdd(TotalBefore(k),
                       RMul(RSub(R(1), RMul(R(2), RAbs(pin.noises[k]))),
                            AmplitudeBefore(k)))
        /\ pout.result = RMul(pout.passes[Len(pout.passes)].total,
                              pin.fractal_bounding)

(***************************************************************************)
(* C24: for every sample raw in [-1, 1] and every ping_pong_strength the   *)
(* folded value of (raw + 1) * strength lies in [0, 1].                    *)
(***************************************************************************)
FoldDone == pfn \in {"_ping_pong", "pingpong_inline"} /\ pout.done

C24_FoldInUnitInterval ==
    FoldDone => RLe(R(0), pout.noise) /\ RLe(pout.noise, R(1))

(***************************************************************************)
(* C24 as the code has it: for ping_pong_strength >= 0 the folded value is *)
(* the period-2 triangle wave of t = (raw + 1) * strength (t mod 2 below   *)
(* 1, 2 - t mod 2 from 1 on) and lies in [0, 1]; for a negative strength   *)
(* int() truncates toward zero, nothing is folded and the value is         *)
(* t - 2 * trunc(t / 2), in (-2, 0].                                       *)
(***************************************************************************)
C24_FoldInUnitIntervalForNonNegative ==
    FoldDone =>
        LET t == RMul(RAdd(pin.raw, R(1)), pin.ping_pong_strength)
            m == RSub(t, R(2 * RFloor(RMul(t, <<1, 2>>))))
        IN  IF RLe(R(0), pin.ping_pong_strength)
            THEN /\ RLe(R(0), pout.noise) /\ RLe(pout.noise, R(1))
                 /\ pout.noise = IF RLt(m, R(1)) THEN m ELSE RSub(R(2), m)
            ELSE /\ RLt(R(-2), pout.noise) /\ RLe(pout.noise, R(0))
                 /\ pout.noise = RSub(t, R(2 * RTrunc(RMul(t, <<1, 2>>))))

C24_Witness ==
    /\ pfn = "_ping_pong" /\ pout.done
    /\ pin.raw = R(0) /\ pin.ping_pong_strength = <<3, 2>>
    /\ pout.noise = <<1, 2>>

(***************************************************************************)
(* C25: after any sequence of assignments to the config and noise_type     *)
(* properties of a NoiseGenerator2D, those that raise included, the        *)
(* noise_type property, the noise_type and seed entries of the stored      *)
(* configuration, the seed attribute and the parameters of the active      *)
(* generator and domain-warp objects describe the same configuration.      *)
(***************************************************************************)
DescribesOneConfiguration(e) ==
    /\ e.noise_type = e.config.noise_type.s
    /\ e.seed = e.config.seed
    /\ create_generator_from_config_err(e.config) = "none"
    /\ e.generator = create_generator_from_config(e.config)
    /\ create_domain_warp_from_config_err(e.config) = "none"
    /\ \E rng \in default_rng(Some(e.config.seed)) :
          e.domain_warp = create_domain_warp_from_config(e.config, rng)

C25_FacadeDescribesOneConfiguration ==
    \A i \in DOMAIN gens : DescribesOneConfiguration(gens[i])

(***************************************************************************)
(* C26: after any sequence of add_child and remove_child calls no object   *)
(* is its own ancestor, so following parent links ends, and reading the    *)
(* world position x / y and calling destroy() always terminate.            *)
(***************************************************************************)
RECURSIVE AncestorAt(_, _)
AncestorAt(o, k) ==
    IF k = 0 THEN o
    ELSE IF AncestorAt(o, k - 1) = 0 THEN 0
    ELSE objs[AncestorAt(o, k - 1)].parent

C26_NoObjectIsItsOwnAncestor ==
    /\ \A o \in DOMAIN objs : \A k \in 1 .. Len(objs) : AncestorAt(o, k) # o
    /\ objop.op \in {"x", "destroy"} => objop.err = "none"

(***************************************************************************)
(* C27: after any sequence of take_damage and heal calls with any numeric  *)
(* amounts, a character's health satisfies 0 <= health <= max_health.      *)
(***************************************************************************)
C27_HealthWithinBounds ==
    chr.alive => (0 <= chr.health /\ chr.health <= chr.max_health)

(***************************************************************************)
(* C28: in every state reachable through add, remove, clear and            *)
(* handle_event, the focused widget and the hovered widget are each None   *)
(* or a widget still attached to the manager: a registered top-level       *)
(* widget or a descendant of one.                                          *)
(***************************************************************************)
RECURSIVE AttachedTo(_, _)
AttachedTo(m, w) ==
    IF w = 0 THEN FALSE
    ELSE SeqContains(m.widgets, w) \/ AttachedTo(m, WidgetParent[w])

C28_FocusAndHoverAttached ==
    ui.alive =>
        /\ ui.focused = 0 \/ AttachedTo(ui, ui.focused)
        /\ ui.hovered = 0 \/ AttachedTo(ui, ui.hovered)

(***************************************************************************)
(* C29: for every signed 32-bit hash value h, negative ones included, the  *)
(* gradient-table index and its pair index | 1 lie in 0..255 and every     *)
(* random-vector index and its pair lie in 0..511, so _grad_coord,         *)
(* _grad_coord_out, _grad_coord_dual and the cellular lookup read inside   *)
(* the 256-entry and the 512-entry table.                                  *)
(***************************************************************************)
LookupDone ==
    /\ pfn \in {"_grad_coord", "_grad_coord_out", "_grad_coord_dual", "_single_cellular"}
    /\ pout.done

C29_TableIndicesInRange ==
    LookupDone =>
        /\ \A k \in DOMAIN pout.gradients :
              pout.gradients[k] \in 0 .. (GRADIENTS_2D_LEN - 1)
        /\ \A k \in DOMAIN pout.rand_vecs :
              pout.rand_vecs[k] \in 0 .. (RAND_VECS_2D_LEN - 1)
        /\ pout.gradients # <<>> =>
              pout.gradients[1] % 2 = 0 /\ pout.gradients[2] = pout.gradients[1] + 1
        /\ pout.rand_vecs # <<>> =>
              pout.rand_vecs[1] % 2 = 0 /\ pout.rand_vecs[2] = pout.rand_vecs[1] + 1

C29_Witness ==
    /\ pfn = "_grad_coord_dual" /\ pout.done
    /\ pin.h = -2
    /\ pout.gradients = <<254, 255>>
    /\ pout.rand_vecs = <<510, 511>>

(***************************************************************************)
(* C30: the permutation table of a DomainWarp2D always has 512 entries,    *)
(* one permutation of 0..255 repeated twice, and every subscript the warp  *)
(* kernels compute into it lies in 0..511 for all integer lattice          *)
(* coordinates, negative ones included.                                    *)
(***************************************************************************)
SubscriptOps == {"_simplex_warp_single", "_basic_grid_warp_single"}

C30_TableAndSubscriptsInRange ==
    dw.alive =>
        /\ DOMAIN dw.obj.permutation = 0 .. 511
        /\ {dw.obj.permutation[k] : k \in 0 .. 255} = 0 .. 255
        /\ \A k \in 0 .. 255 : dw.obj.permutation[k + 256] = dw.obj.permutation[k]
        /\ dwop.op \in SubscriptOps =>
              /\ \A k \in DOMAIN dwop.result.inner : dwop.result.inner[k] \in 0 .. 511
              /\ \A k \in DOMAIN dwop.result.outer : dwop.result.outer[k] \in 0 .. 511

C30_Witness ==
    /\ dw.alive /\ dw.n = 1
    /\ dwop.op = "_simplex_warp_single"
    /\ dwop.i = -1 /\ dwop.j = -257
    /\ dwop.result.inner = <<255, 256, 256>>
    /\ \E k \in 1 .. 3 : dwop.result.outer[k] > 255

====
